---- MODULE Spec2Model ----
(***************************************************************************)
(* Audit / change-tracking subsystem of the enterprise application         *)
(* tracker: actor context (thread-local), change detector (AuditMixin),    *)
(* record builder and sink (AuditLogger, AuditFormatter), change           *)
(* interceptor (pre_save / post_save / post_delete receivers) and the log  *)
(* reader (view_audit_logs.parse_log_entry).                               *)
(*                                                                         *)
(* Strings are sequences whose elements are single characters, or atomic   *)
(* words standing for a run of letters, digits, '_', '-', '.' (a word      *)
(* never holds a quote, a backslash, a space, '|' or ':').  Every string   *)
(* that holds a word is far shorter than 100 characters in the program,    *)
(* so Len agrees with len() on which side of 100 a string lies.            *)
(* Python values are tagged records [t |-> type, v |-> str(value)].        *)
(***************************************************************************)
EXTENDS Integers, Sequences, FiniteSets, TLC

\* ---------------------------------------------------------------- bounds
\* Most steps that start something (a unit of work, an operation on an
\* instance, a direct log_change call) in a behaviour.
MaxOps == 4

\* the most entries the log holds when its file is formatted and read back
MaxEvents == 3

\* ------------------------------------------------------ program constants
\* len(str_value) > 100 in _format_field_value
TruncateOver == 100
\* str_value[:97] in _format_field_value
TruncateKeep == 97
\* line[json_start + 8:] in parse_log_entry
MarkerSkip == 8

\* ------------------------------------------------------------ the values
Thread == {"t1", "t2"}
Actor == {"alice", "bob"}
NoUser == "None"

Digits == <<"0", "1", "2", "3", "4", "5", "6", "7", "8", "9">>
Digit(n) == Digits[n + 1]

Rep(c, n) == [i \in 1..n |-> c]

PyNone == [t |-> "None", v |-> <<"None">>]
PyStr(s) == [t |-> "str", v |-> s]
PyInt(n) == [t |-> "int", v |-> <<Digit(n)>>]
PyBool(b) == [t |-> "bool", v |-> IF b THEN <<"True">> ELSE <<"False">>]
PyUUID(w) == [t |-> "UUID", v |-> <<w>>]
\* a datetime read from the clock at tick n
PyDateTime(n) == [t |-> "datetime", v |-> <<Digit(n)>>]
\* a related model instance held by a ForeignKey attribute, with its pk
PyObj(n) == [t |-> "obj", v |-> <<Digit(n)>>]
\* an attribute whose access raises (hasattr is False): unset non-null relation
Unset == [t |-> "unset", v |-> <<>>]

\* str(value)
Str(value) == value.v

\* bool(value) for the values the audited fields and the decoded lines hold
Truthy(value) ==
    CASE value.t = "None" -> FALSE
      [] value.t = "bool" -> value.v = <<"True">>
      [] value.t = "int" -> value.v # <<"0">>
      [] value.t = "str" -> value.v # <<>>
      [] value.t = "dict" -> value.v # <<>>
      [] OTHER -> TRUE

\* datetime.isoformat()
isoformat(value) ==
    PyStr(<<"2", "0", "2", "5", "-", "0", "1", "-", "0", "1", "T",
            "1", "0", ":", "0", "0", ":", "0">> \o value.v)

\* datetime.now().strftime('%Y-%m-%d %H:%M:%S') at tick n: the seconds only
\* (two ticks of the clock fall in every second)
strftime(n) ==
    <<"2", "0", "2", "5", "-", "0", "1", "-", "0", "1", " ",
      "1", "0", ":", "0", "0", ":", "0", Digit(n \div 2)>>

\* User.username and User.id of the users of the model
username(u) == <<u>>
user_id(u) == IF u = "alice" THEN PyInt(1) ELSE PyInt(2)

\* -------------------------------------------------- the schema (models.py)
Kind == {"Application", "Language", "User"}

\* model_class._meta.app_label, model_class.__name__, instance._meta.label
app_label(k) == IF k = "User" THEN "auth" ELSE "inventory"
label(k) == IF k = "User" THEN <<"auth.User">>
            ELSE IF k = "Language" THEN <<"inventory.Language">>
            ELSE IF k = "UserProfile" THEN <<"inventory.UserProfile">>
            ELSE <<"inventory.Application">>

\* whether the class inherits AuditMixin
HasAuditMixin(k) == k \in {"Application", "UserProfile"}

\* UserProfile.USER_ROLES
USER_ROLES ==
    <<  <<"application_admin", "Application Admin">>,
        <<"systems_manager", "Systems Manager">>,
        <<"technician", "Technician">>,
        <<"business_manager", "Business Manager">>,
        <<"business_user", "Business User">> >>

LIFECYCLE_STAGES ==
    <<  <<"planning", "Planning">>, <<"development", "Development">>,
        <<"testing", "Testing">>, <<"staging", "Staging">>,
        <<"production", "Production">>, <<"maintenance", "Maintenance">>,
        <<"deprecated", "Deprecated">>, <<"retired", "Retired">> >>

Field(n, ty, ch, an) == [name |-> n, type |-> ty, choices |-> ch, auto_now |-> an]

\* instance._meta.fields, in declaration order (the fields the model tracks)
Fields(k) ==
    CASE k = "Application" ->
            << Field("id", "UUIDField", <<>>, FALSE),
               Field("name", "CharField", <<>>, FALSE),
               Field("lifecycle_stage", "CharField", LIFECYCLE_STAGES, FALSE),
               Field("primary_server", "ForeignKey", <<>>, FALSE),
               Field("is_active", "BooleanField", <<>>, FALSE),
               Field("updated_at", "DateTimeField", <<>>, TRUE) >>
      [] k = "Language" ->
            << Field("id", "AutoField", <<>>, FALSE),
               Field("name", "CharField", <<>>, FALSE),
               Field("updated_at", "DateTimeField", <<>>, TRUE) >>
      [] k = "UserProfile" ->
            << Field("id", "AutoField", <<>>, FALSE),
               Field("role", "CharField", USER_ROLES, FALSE),
               Field("has_documentation_access", "BooleanField", <<>>, FALSE),
               Field("updated_at", "DateTimeField", <<>>, TRUE) >>
      [] OTHER ->
            << Field("id", "AutoField", <<>>, FALSE),
               Field("username", "CharField", <<>>, FALSE) >>

FieldNames(k) == {Fields(k)[i].name : i \in 1..Len(Fields(k))}

\* ServerEnvironment rows a primary_server key can resolve to, with str(server)
RelatedExists(pk) == pk \in {<<"1">>, <<"2">>}
RelatedStr(pk) == <<"srv">> \o pk

\* ----------------------------------------- change detector (AuditMixin)
\* dict.get(key), None when the key is absent
DictGet(d, key) == IF key \in DOMAIN d THEN d[key] ELSE PyNone

\* hasattr(self, field.name)
HasAttr(i, f) == i.vals[f.name] # Unset

\* the comparable form of an attribute value: the key of a related object,
\* the ISO string of a datetime, any other value as it is
Comparable(value) ==
    IF value.t = "obj" THEN [t |-> "int", v |-> value.v]
    ELSE IF value.t = "datetime" THEN isoformat(value)
    ELSE value

RECURSIVE StoreLoop(_, _, _)
StoreLoop(i, orig, n) ==
    IF n > Len(Fields(i.kind)) THEN orig
    ELSE LET f == Fields(i.kind)[n] IN
         IF HasAttr(i, f)
         THEN StoreLoop(i, (f.name :> Comparable(i.vals[f.name])) @@ orig, n + 1)
         ELSE StoreLoop(i, orig, n + 1)

\* AuditMixin._store_original_values: writes every readable field into the
\* instance's _original_values (entries of other fields are kept)
store_original_values(i) == [i EXCEPT !.orig = StoreLoop(i, i.orig, 1)]

\* dict(field.choices).get(value, 'Unknown')
RECURSIVE ChoiceLabel(_, _, _)
ChoiceLabel(choices, value, n) ==
    IF n > Len(choices) THEN "Unknown"
    ELSE IF value.t = "str" /\ value.v = <<choices[n][1]>> THEN choices[n][2]
    ELSE ChoiceLabel(choices, value, n + 1)

\* display rules that truncate a text of 100 characters too
format_field_value_truncates_at_100(f, value) ==
    IF value.t = "None" THEN <<"N", "U", "L", "L">>
    ELSE IF f.type = "ForeignKey" /\ Truthy(value)
    THEN IF RelatedExists(value.v)
         THEN Str(value) \o <<" ", "(">> \o RelatedStr(value.v) \o <<")">>
         ELSE Str(value)
    ELSE IF f.type = "BooleanField"
    THEN IF Truthy(value) THEN <<"True">> ELSE <<"False">>
    ELSE IF f.choices # <<>>
    THEN Str(value) \o <<" ", "(">> \o <<ChoiceLabel(f.choices, value, 1)>> \o <<")">>
    ELSE IF Len(Str(value)) >= TruncateOver
    THEN SubSeq(Str(value), 1, TruncateKeep) \o <<".", ".", ".">>
    ELSE Str(value)

\* AuditMixin._format_field_value
format_field_value(f, value) ==
    IF value.t = "None" THEN <<"N", "U", "L", "L">>
    ELSE IF f.type = "ForeignKey" /\ Truthy(value)
    THEN IF RelatedExists(value.v)
         THEN Str(value) \o <<" ", "(">> \o RelatedStr(value.v) \o <<")">>
         ELSE Str(value)
    ELSE IF f.type = "BooleanField"
    THEN IF Truthy(value) THEN <<"True">> ELSE <<"False">>
    ELSE IF f.choices # <<>>
    THEN Str(value) \o <<" ", "(">> \o <<ChoiceLabel(f.choices, value, 1)>> \o <<")">>
    ELSE IF Len(Str(value)) > TruncateOver
    THEN SubSeq(Str(value), 1, TruncateKeep) \o <<".", ".", ".">>
    ELSE Str(value)

\* a comparison that reports no change for a field the snapshot lacks
FieldDiffers_known_only(current_comparable, original_value) ==
    current_comparable # original_value /\ original_value # PyNone

\* current_comparable != original_value
FieldDiffers(current_comparable, original_value) ==
    current_comparable # original_value

RECURSIVE ChangesLoop(_, _, _)
ChangesLoop(i, changes, n) ==
    IF n > Len(Fields(i.kind)) THEN changes
    ELSE LET f == Fields(i.kind)[n] IN
         IF HasAttr(i, f)
         THEN LET current_comparable == Comparable(i.vals[f.name])
                  original_value == DictGet(i.orig, f.name)
              IN  IF FieldDiffers(current_comparable, original_value)
                  THEN ChangesLoop(i,
                         Append(changes,
                            <<f.name, [old |-> format_field_value(f, original_value),
                                       new |-> format_field_value(f, current_comparable)]>>),
                         n + 1)
                  ELSE ChangesLoop(i, changes, n + 1)
         ELSE ChangesLoop(i, changes, n + 1)

\* AuditMixin.get_field_changes; the changes dict is the sequence of its
\* <<field name, {old, new}>> items in insertion order (the names are distinct)
get_field_changes(i) ==
    IF ~i.has_orig THEN <<>> ELSE ChangesLoop(i, <<>>, 1)

\* ------------------------------------------------------------- the state
VARIABLES
    thread_local,   \* _thread_local.user of every thread (None when never set)
    pc,             \* what each thread runs: "idle", "request" or "command"
    unit_actor,     \* the actor the running unit of work of a thread set (history)
    ops,            \* units of work, instance operations and direct calls so far
    inst,           \* the model instance each thread's unit of work holds
    db,             \* the persisted row of every kind (one entity per kind)
    clock,          \* the last tick read from the clock (time only goes on)
    log,            \* the audit entries written to audit.log, in order
    log_ctx,        \* for every entry: the thread that emitted it, the actor that
                    \* thread's unit of work had set, the user passed to log_change,
                    \* the user in the thread's context and the clock at that time
                    \* (history)
    viewer,         \* the last run of the log viewer: its arguments, the file
                    \* it found, the number of entries the logger had written
                    \* by then (history) and what the run did
    sink,           \* the 'audit' logger and its file: the handler the logger
                    \* holds, every handler's lock and stream buffer, what
                    \* audit.log holds, and how far each thread's logger.info
                    \* call has got
    command,        \* the last run of update_documentation_access: its
                    \* --dry-run option, the rows it found (history) and what it
                    \* wrote to its stdout
    savepoint       \* for every thread inside transaction.atomic: the rows and
                    \* the number of log entries when it entered the block

vars == <<thread_local, pc, unit_actor, ops, inst, db, clock, log, log_ctx, viewer, sink, command, savepoint>>

NoInst == [kind |-> "none"]
NoRow == [kind |-> "none"]
NoRun == [ran |-> FALSE]
NoCommand == [ran |-> FALSE]
NoSavepoint == [open |-> FALSE]

\* the most handlers the 'audit' logger is given in a behaviour (the one
\* of the module's AuditLogger() and those of later AuditLogger() calls)
MaxHandlers == 2

\* a piece of the file: the formatted record of entry rec or the terminator
\* that follows it, written through handler h
Chunk(rec, part, h) == [rec |-> rec, part |-> part, h |-> h]

\* a thread that is not inside logger.info
NotEmitting == [pc |-> "idle", h |-> 0, rec |-> 0]

\* the logger after the module's AuditLogger(): one FileHandler, whose lock
\* is free and whose stream buffer is empty, and an audit.log without lines
InitSink ==
    [handler |-> 1,
     lock |-> [h \in 1..MaxHandlers |-> "free"],
     buffer |-> [h \in 1..MaxHandlers |-> <<>>],
     file |-> <<>>,
     emit |-> [t \in Thread |-> NotEmitting]]

\* ------------------------------------------- actor context (AuditLogger)
\* AuditLogger.get_current_user: getattr(_thread_local, 'user', None)
get_current_user(tl, t) == tl[t]

\* a slot shared by all threads of the process instead of one per thread
set_current_user_shared(tl, t, user) == [x \in DOMAIN tl |-> user]

\* AuditLogger.set_current_user: _thread_local.user = user
set_current_user(tl, t, user) == [tl EXCEPT ![t] = user]

\* ------------------------------------------ record builder (AuditLogger)
\* AuditLogger.log_change: the audit_entry it passes to the logger; a user
\* that is None is taken from the thread's context; changes and
\* additional_info that are None or empty become {}
\* a builder that prefers the thread's context to the user it is passed
log_change_context_first(action, model_name, object_id, object_str, changes, user, additional_info, t, now) ==
    LET c == get_current_user(thread_local, t)
        u == IF c = NoUser THEN user ELSE c
    IN  [timestamp |-> strftime(now),
         action |-> action,
         model |-> model_name,
         object_id |-> object_id,
         object_str |-> object_str,
         user |-> IF u # NoUser THEN username(u) ELSE <<"SYSTEM">>,
         user_id |-> IF u # NoUser THEN user_id(u) ELSE PyNone,
         changes |-> changes,
         additional_info |-> additional_info]

log_change(action, model_name, object_id, object_str, changes, user, additional_info, t, now) ==
    LET u == IF user = NoUser THEN get_current_user(thread_local, t) ELSE user
    IN  [timestamp |-> strftime(now),
         action |-> action,
         model |-> model_name,
         object_id |-> object_id,
         object_str |-> object_str,
         user |-> IF u # NoUser THEN username(u) ELSE <<"SYSTEM">>,
         user_id |-> IF u # NoUser THEN user_id(u) ELSE PyNone,
         changes |-> changes,
         additional_info |-> additional_info]

\* str(instance): Application.__str__, Language.__str__, UserProfile.__str__
\* (vals["user"] is the username of the profile's user, who has no full
\* name), User.__str__
instance_str(i) ==
    IF i.kind = "Application"
    THEN Str(i.vals["name"]) \o <<" ", "(">> \o Str(i.vals["lifecycle_stage"]) \o <<")">>
    ELSE IF i.kind = "Language" THEN Str(i.vals["name"])
    ELSE IF i.kind = "UserProfile"
    THEN Str(i.vals["user"]) \o <<" ", "(", ChoiceLabel(USER_ROLES, i.vals["role"], 1), ")">>
    ELSE Str(i.vals["username"])

\* AuditLogger.log_create
log_create(i, t, now) ==
    log_change(<<"CREATE">>, label(i.kind), Str(i.vals["id"]), instance_str(i),
               <<>>, NoUser, <<>>, t, now)

\* AuditLogger.log_update
log_update(i, changes, t, now) ==
    log_change(<<"UPDATE">>, label(i.kind), Str(i.vals["id"]), instance_str(i),
               changes, NoUser, <<>>, t, now)

\* AuditLogger.log_delete
log_delete(i, t, now) ==
    log_change(<<"DELETE">>, label(i.kind), Str(i.vals["id"]), instance_str(i),
               <<>>, NoUser, <<>>, t, now)

\* --------------------------------------- change interceptor (receivers)
\* should_skip_audit; skip_models is empty; no kind of the model has
\* 'migration' in its name
should_skip_audit(k) ==
    \/ app_label(k) \in {"auth", "contenttypes", "sessions", "admin"}
    \/ k \in {"Migration"}

RECURSIVE RowLoop(_, _, _)
RowLoop(row, orig, n) ==
    IF n > Len(Fields(row.kind)) THEN orig
    ELSE LET f == Fields(row.kind)[n] IN
         IF HasAttr(row, f)
         THEN RowLoop(row, (f.name :> Comparable(row.vals[f.name])) @@ orig, n + 1)
         ELSE RowLoop(row, orig, n + 1)

\* audit_pre_save: an instance without _original_values and with a pk gets
\* them from the persisted row ({} when there is none)
audit_pre_save(i) ==
    IF i.has_orig THEN i
    ELSE IF Truthy(i.vals["id"])
    THEN IF db[i.kind] # NoRow
         THEN [i EXCEPT !.has_orig = TRUE, !.orig = RowLoop(db[i.kind], <<>>, 1)]
         ELSE [i EXCEPT !.has_orig = TRUE, !.orig = <<>>]
    ELSE i

\* a post_save receiver that does not store the new values as the snapshot
audit_post_save_keeps_snapshot(i, created, t, now) ==
    IF should_skip_audit(i.kind) THEN [instance |-> i, entries |-> <<>>]
    ELSE LET changes == IF HasAuditMixin(i.kind) THEN get_field_changes(i) ELSE <<>>
             entries == IF created THEN <<log_create(i, t, now)>>
                        ELSE IF changes # <<>> THEN <<log_update(i, changes, t, now)>>
                        ELSE <<>>
         IN  [instance |-> i, entries |-> entries]

\* audit_post_save: the instance after the handler and the entries it logged
audit_post_save(i, created, t, now) ==
    IF should_skip_audit(i.kind) THEN [instance |-> i, entries |-> <<>>]
    ELSE LET changes == IF HasAuditMixin(i.kind) THEN get_field_changes(i) ELSE <<>>
             entries == IF created THEN <<log_create(i, t, now)>>
                        ELSE IF changes # <<>> THEN <<log_update(i, changes, t, now)>>
                        ELSE <<>>
         IN  [instance |-> IF HasAuditMixin(i.kind) THEN store_original_values(i) ELSE i,
              entries |-> entries]

\* a post_delete receiver that logs only the kinds that track their fields
audit_post_delete_tracked_only(i, t, now) ==
    IF should_skip_audit(i.kind) \/ ~HasAuditMixin(i.kind) THEN <<>>
    ELSE <<log_delete(i, t, now)>>

\* audit_post_delete: the entries it logged
audit_post_delete(i, t, now) ==
    IF should_skip_audit(i.kind) THEN <<>> ELSE <<log_delete(i, t, now)>>

\* ------------------------------------------------- the persistence layer
\* Model.__init__ with AuditMixin.__init__: _original_values = {} and, when
\* the instance has a pk, the snapshot of its fields (dirty: a field was
\* assigned since the load or the last save; raised: the last save() or
\* delete() ended with an exception; both history)
init_instance(k, vals, adding) ==
    LET i == [kind |-> k, vals |-> vals, adding |-> adding,
              has_orig |-> HasAuditMixin(k), orig |-> <<>>, dirty |-> FALSE,
              raised |-> FALSE]
    IN  IF HasAuditMixin(k) /\ Truthy(vals["id"]) THEN store_original_values(i) ELSE i

ShortName == <<"A">>
LongNameA == Rep("x", TruncateOver) \o <<"a">>

\* the keyword arguments a unit of work constructs a new instance with;
\* Application.id defaults to uuid4 at construction, the other keys to None
NewVals(k) ==
    CASE k = "Application" ->
            {[id |-> PyUUID("u1"), name |-> PyStr(ShortName),
              lifecycle_stage |-> PyStr(<<"development">>),
              primary_server |-> ps, is_active |-> PyBool(TRUE),
              updated_at |-> PyNone] : ps \in {PyObj(1), Unset}}
      [] k = "Language" ->
            {[id |-> PyNone, name |-> PyStr(<<"P", "y">>), updated_at |-> PyNone]}
      [] OTHER ->
            {[id |-> PyNone, username |-> PyStr(<<"carol">>)]}

\* the attribute assignments the units of work of Spec make
Assignable(k) ==
    CASE k = "Application" ->
            {<<"name", PyStr(<<"B">>)>>,
             <<"lifecycle_stage", PyStr(<<"testing">>)>>,
             <<"primary_server", PyObj(1)>>}
      [] k = "Language" ->
            {<<"name", PyStr(<<"G", "o">>)>>}
      [] OTHER ->
            {<<"username", PyStr(<<"dave">>)>>}

\* the key of a row inserted without one: Application.id falls back to its
\* default (uuid4), the other kinds get the key the database assigns
NewPk(k) == IF k = "Application" THEN PyUUID("u2") ELSE PyInt(1)

\* the values saved: auto_now fields take the time of the save, a missing
\* key is assigned by the insert
RECURSIVE PreSaveLoop(_, _, _, _)
PreSaveLoop(k, vals, now, n) ==
    IF n > Len(Fields(k)) THEN vals
    ELSE LET f == Fields(k)[n] IN
         IF f.auto_now
         THEN PreSaveLoop(k, [vals EXCEPT ![f.name] = PyDateTime(now)], now, n + 1)
         ELSE IF f.name = "id" /\ vals["id"] = PyNone
         THEN PreSaveLoop(k, [vals EXCEPT !["id"] = NewPk(k)], now, n + 1)
         ELSE PreSaveLoop(k, vals, now, n + 1)

\* UserProfile.can_access_documentation
can_access_documentation(i) ==
    IF i.vals["role"] = PyStr(<<"application_admin">>) THEN TRUE
    ELSE Truthy(i.vals["has_documentation_access"])

\* a save override that grants an admin documentation access only when
\* the profile is created
UserProfile_save_creation_only(i) ==
    IF i.kind # "UserProfile" THEN i
    ELSE IF i.vals["role"] \in {PyStr(<<"application_admin">>), PyStr(<<"systems_manager">>)}
            /\ ~Truthy(i.vals["id"])
    THEN [i EXCEPT !.vals["has_documentation_access"] = PyBool(TRUE)]
    ELSE i

\* a save override that grants a systems manager documentation access on
\* every save
UserProfile_save_every_save(i) ==
    IF i.kind # "UserProfile" THEN i
    ELSE IF i.vals["role"] \in {PyStr(<<"application_admin">>), PyStr(<<"systems_manager">>)}
    THEN [i EXCEPT !.vals["has_documentation_access"] = PyBool(TRUE)]
    ELSE i

\* UserProfile.save before it calls Model.save: an admin always gets
\* documentation access, a systems manager gets it when the profile has no
\* key yet; the other models do not override save
UserProfile_save(i) ==
    IF i.kind # "UserProfile" THEN i
    ELSE IF i.vals["role"] = PyStr(<<"application_admin">>)
    THEN [i EXCEPT !.vals["has_documentation_access"] = PyBool(TRUE)]
    ELSE IF i.vals["role"] = PyStr(<<"systems_manager">>) /\ ~Truthy(i.vals["id"])
    THEN [i EXCEPT !.vals["has_documentation_access"] = PyBool(TRUE)]
    ELSE i

\* ---------------------------------------------------------------- actions
\* a database without entities, and one that holds an entity of every kind
EmptyDb == [k \in Kind |-> NoRow]
PopulatedDb ==
    [k \in Kind |->
        [kind |-> k,
         vals |-> CASE k = "Application" ->
                        [id |-> PyUUID("u1"), name |-> PyStr(ShortName),
                         lifecycle_stage |-> PyStr(<<"development">>),
                         primary_server |-> PyObj(1), is_active |-> PyBool(TRUE),
                         updated_at |-> PyDateTime(0)]
                    [] k = "Language" ->
                        [id |-> PyInt(1), name |-> PyStr(<<"P", "y">>),
                         updated_at |-> PyDateTime(0)]
                    [] OTHER ->
                        [id |-> PyInt(1), username |-> PyStr(<<"carol">>)]]]

\* the process after start-up: no thread has set a user, no unit of work
\* runs, the log is empty
InitWith(database) ==
    /\ thread_local = [t \in Thread |-> NoUser]
    /\ pc = [t \in Thread |-> "idle"]
    /\ unit_actor = [t \in Thread |-> NoUser]
    /\ ops = 0
    /\ inst = [t \in Thread |-> NoInst]
    /\ db = database
    /\ clock = 0
    /\ log = <<>>
    /\ log_ctx = <<>>
    /\ viewer = NoRun
    /\ sink = InitSink
    /\ command = NoCommand
    /\ savepoint = [t \in Thread |-> NoSavepoint]

Init == \E database \in {EmptyDb, PopulatedDb} : InitWith(database)

\* a logger that puts the entries of a handler before those already written
Emit_at_front(entries, t, passed, context, now) ==
    /\ log' = entries \o log
    /\ log_ctx' = [n \in 1..Len(entries) |->
                      [thread |-> t, actor |-> unit_actor[t], passed |-> passed,
                       context |-> context, tick |-> now]] \o log_ctx
    /\ sink' = [sink EXCEPT !.file = @ \o
                   [j \in 1..(2 * Len(entries)) |->
                       Chunk(Len(log) + ((j + 1) \div 2),
                             IF j % 2 = 1 THEN "msg" ELSE "terminator", sink.handler)]]

\* logger.info for each of the entries a handler logged, one after the
\* other and each as a whole: the entries are appended to the log, in order,
\* and their records and terminators to the file
Emit(entries, t, passed, context, now) ==
    /\ log' = log \o entries
    /\ log_ctx' = log_ctx \o [n \in 1..Len(entries) |->
                      [thread |-> t, actor |-> unit_actor[t], passed |-> passed,
                       context |-> context, tick |-> now]]
    /\ sink' = [sink EXCEPT !.file = @ \o
                   [j \in 1..(2 * Len(entries)) |->
                       Chunk(Len(log) + ((j + 1) \div 2),
                             IF j % 2 = 1 THEN "msg" ELSE "terminator", sink.handler)]]

\* AuditMiddleware.process_request: a request starts on an idle thread; user
\* is request.user when it is authenticated, None otherwise
process_request(t, user) ==
    /\ pc[t] = "idle"
    /\ ops < MaxOps
    /\ thread_local' = set_current_user(thread_local, t, user)
    /\ pc' = [pc EXCEPT ![t] = "request"]
    /\ unit_actor' = [unit_actor EXCEPT ![t] = user]
    /\ ops' = ops + 1
    /\ UNCHANGED <<inst, db, clock, log, log_ctx, viewer, sink, command, savepoint>>

\* AuditMiddleware.process_response: the view returned
process_response(t) ==
    /\ pc[t] = "request"
    /\ thread_local' = set_current_user(thread_local, t, NoUser)
    /\ pc' = [pc EXCEPT ![t] = "idle"]
    /\ unit_actor' = [unit_actor EXCEPT ![t] = NoUser]
    /\ inst' = [inst EXCEPT ![t] = NoInst]
    /\ UNCHANGED <<ops, db, clock, log, log_ctx, viewer, sink, command, savepoint>>

\* AuditMiddleware.process_exception, then process_response on the error
\* response: the view raised
process_exception(t) ==
    /\ pc[t] = "request"
    /\ thread_local' = set_current_user(
                           set_current_user(thread_local, t, NoUser), t, NoUser)
    /\ pc' = [pc EXCEPT ![t] = "idle"]
    /\ unit_actor' = [unit_actor EXCEPT ![t] = NoUser]
    /\ inst' = [inst EXCEPT ![t] = NoInst]
    /\ UNCHANGED <<ops, db, clock, log, log_ctx, viewer, sink, command, savepoint>>

\* test_audit_logging Command.handle up to line 34: the task sets its user
handle_start(t, user) ==
    /\ pc[t] = "idle"
    /\ ops < MaxOps
    /\ thread_local' = set_current_user(thread_local, t, user)
    /\ pc' = [pc EXCEPT ![t] = "command"]
    /\ unit_actor' = [unit_actor EXCEPT ![t] = user]
    /\ ops' = ops + 1
    /\ UNCHANGED <<inst, db, clock, log, log_ctx, viewer, sink, command, savepoint>>

\* Command.handle lines 105-124: the task clears the context, then logs its
\* TEST entry with the user passed explicitly
handle_finish(t, now) ==
    /\ pc[t] = "command"
    /\ thread_local' = set_current_user(thread_local, t, NoUser)
    /\ clock' = now
    /\ Emit(<<log_change(<<"TEST">>, <<"System">>, <<"test">>,
                 <<"Audit", " ", "logging", " ", "test", " ", "completed">>,
                 <<>>, unit_actor[t],
                 << <<"test_run", PyBool(TRUE)>>,
                    <<"timestamp", PyStr(<<"manual">>)>> >>, t, now)>>,
            t, unit_actor[t], NoUser, now)
    /\ pc' = [pc EXCEPT ![t] = "idle"]
    /\ unit_actor' = [unit_actor EXCEPT ![t] = NoUser]
    /\ inst' = [inst EXCEPT ![t] = NoInst]
    /\ UNCHANGED <<ops, db, viewer, command, savepoint>>

\* Command.handle left by an exception raised between lines 34 and 105 (any
\* of its creates, saves and deletes can raise): nothing clears the context
handle_raise(t) ==
    /\ pc[t] = "command"
    /\ pc' = [pc EXCEPT ![t] = "idle"]
    /\ unit_actor' = [unit_actor EXCEPT ![t] = NoUser]
    /\ inst' = [inst EXCEPT ![t] = NoInst]
    /\ UNCHANGED <<thread_local, ops, db, clock, log, log_ctx, viewer, sink, command, savepoint>>

\* Model(**kwargs): a unit of work constructs an instance of an entity that
\* does not exist yet
Construct(t, k, vals) ==
    /\ pc[t] # "idle"
    /\ ops < MaxOps
    /\ ops' = ops + 1
    /\ \A t2 \in Thread : inst[t2] = NoInst
    /\ db[k] = NoRow
    /\ inst' = [inst EXCEPT ![t] = init_instance(k, vals, TRUE)]
    /\ UNCHANGED <<thread_local, pc, unit_actor, db, clock, log, log_ctx, viewer, sink, command, savepoint>>

\* Model.objects.get(pk=...): a unit of work loads the persisted entity
Load(t, k) ==
    /\ pc[t] # "idle"
    /\ ops < MaxOps
    /\ ops' = ops + 1
    /\ \A t2 \in Thread : inst[t2] = NoInst
    /\ db[k] # NoRow
    /\ inst' = [inst EXCEPT ![t] = init_instance(k, db[k].vals, FALSE)]
    /\ UNCHANGED <<thread_local, pc, unit_actor, db, clock, log, log_ctx, viewer, sink, command, savepoint>>

\* instance.<field> = value
SetAttr(t, fname, value) ==
    /\ pc[t] # "idle"
    /\ ops < MaxOps
    /\ ops' = ops + 1
    /\ inst[t] # NoInst
    /\ fname \in FieldNames(inst[t].kind)
    /\ inst[t].vals[fname] # value
    /\ inst' = [inst EXCEPT ![t].vals[fname] = value, ![t].dirty = TRUE]
    /\ UNCHANGED <<thread_local, pc, unit_actor, db, clock, log, log_ctx, viewer, sink, command, savepoint>>

\* instance.save(): the model's save override, pre_save receiver, the
\* fields' pre_save, the INSERT (when no row has the key) or UPDATE of all
\* fields, post_save receiver.  A save with an unset relation raises before
\* anything is written.
Save(t, now) ==
    /\ pc[t] # "idle"
    /\ ops < MaxOps
    /\ ops' = ops + 1
    /\ inst[t] # NoInst
    /\ \A f \in FieldNames(inst[t].kind) : inst[t].vals[f] # Unset
    /\ inst[t].adding => db[inst[t].kind] = NoRow
    /\ LET k == inst[t].kind
           created == db[k] = NoRow
           i1 == audit_pre_save(UserProfile_save(inst[t]))
           i2 == [i1 EXCEPT !.vals = PreSaveLoop(k, i1.vals, now, 1),
                            !.adding = FALSE]
           r == audit_post_save(i2, created, t, now)
       IN  /\ db' = [db EXCEPT ![k] = [kind |-> k, vals |-> i2.vals]]
           /\ inst' = [inst EXCEPT ![t] = [r.instance EXCEPT !.dirty = FALSE,
                                                              !.raised = FALSE]]
           /\ Emit(r.entries, t, NoUser, thread_local[t], now)
    /\ clock' = now
    /\ UNCHANGED <<thread_local, pc, unit_actor, viewer, command, savepoint>>

\* whether the post_save receiver queries the database for the instance:
\* get_field_changes and _store_original_values read every field with
\* hasattr, which loads the related object of a relation that has a key, and
\* _format_field_value looks the related object up
ReceiverQueries(i) ==
    /\ ~should_skip_audit(i.kind)
    /\ HasAuditMixin(i.kind)
    /\ \E n \in 1..Len(Fields(i.kind)) :
           Fields(i.kind)[n].type = "ForeignKey" /\ Truthy(i.vals[Fields(i.kind)[n].name])

\* instance.save() during which a query of the post_save receiver raises a
\* database error: the row has been written, the receiver has logged
\* nothing, and the exception leaves the receiver, the signal and save()
Save_receiver_raises(t, now) ==
    /\ pc[t] # "idle"
    /\ ops < MaxOps
    /\ ops' = ops + 1
    /\ inst[t] # NoInst
    /\ \A f \in FieldNames(inst[t].kind) : inst[t].vals[f] # Unset
    /\ inst[t].adding => db[inst[t].kind] = NoRow
    /\ LET k == inst[t].kind
           i1 == audit_pre_save(UserProfile_save(inst[t]))
           i2 == [i1 EXCEPT !.vals = PreSaveLoop(k, i1.vals, now, 1),
                            !.adding = FALSE]
       IN  /\ ReceiverQueries(i2)
           /\ db' = [db EXCEPT ![k] = [kind |-> k, vals |-> i2.vals]]
           /\ inst' = [inst EXCEPT ![t] = [i2 EXCEPT !.dirty = FALSE, !.raised = TRUE]]
    /\ clock' = now
    /\ UNCHANGED <<thread_local, pc, unit_actor, log, log_ctx, viewer, sink, command, savepoint>>

\* instance.delete(): the DELETE, post_delete receiver, then the instance's
\* key is set to None
Delete(t, now) ==
    /\ pc[t] # "idle"
    /\ ops < MaxOps
    /\ ops' = ops + 1
    /\ inst[t] # NoInst
    /\ Truthy(inst[t].vals["id"])
    /\ db[inst[t].kind] # NoRow
    /\ db' = [db EXCEPT ![inst[t].kind] = NoRow]
    /\ Emit(audit_post_delete(inst[t], t, now), t, NoUser, thread_local[t], now)
    /\ inst' = [inst EXCEPT ![t].vals["id"] = PyNone, ![t].raised = FALSE]
    /\ clock' = now
    /\ UNCHANGED <<thread_local, pc, unit_actor, viewer, command, savepoint>>

\* audit_logger.log_change(...) called by the code of a unit of work,
\* outside the receivers
LogChangeDirect(t, c, now) ==
    /\ pc[t] # "idle"
    /\ ops < MaxOps
    /\ ops' = ops + 1
    /\ clock' = now
    /\ Emit(<<log_change(c.action, c.model_name, c.object_id, c.object_str,
                         c.changes, c.user, c.additional_info, t, now)>>,
            t, c.user, thread_local[t], now)
    /\ UNCHANGED <<thread_local, pc, unit_actor, inst, db, viewer, command, savepoint>>

\* what a read of the clock returns: a tick later than every earlier read
Now == clock + 1

Next ==
    \E t \in Thread :
        \/ \E user \in Actor \cup {NoUser} : process_request(t, user)
        \/ process_response(t)
        \/ process_exception(t)
        \/ \E user \in Actor : handle_start(t, user)
        \/ handle_finish(t, Now)
        \/ handle_raise(t)
        \/ \E k \in Kind : \E vals \in NewVals(k) : Construct(t, k, vals)
        \/ \E k \in Kind : Load(t, k)
        \/ \E k \in Kind : \E a \in Assignable(k) : SetAttr(t, a[1], a[2])
        \/ Save(t, Now)
        \/ Delete(t, Now)
        \/ \E u \in {"bob", NoUser} :
              LogChangeDirect(t, [action |-> <<"CREATE">>, model_name |-> <<"UserProfile">>,
                                  object_id |-> <<"1", "2", "3">>, object_str |-> <<"p">>,
                                  changes |-> << <<"role", [old |-> <<"None">>,
                                                            new |-> <<"technician">>]>> >>,
                                  user |-> u, additional_info |-> <<>>], Now)

Spec == Init /\ [][Next]_vars

\* ------------------------------------------ the change detector's inputs
\* the Application rows a request can find in the database
DetectorRows ==
    {[kind |-> "Application",
      vals |-> [id |-> PyUUID("u1"), name |-> PyStr(nm),
                lifecycle_stage |-> PyStr(<<st>>), primary_server |-> PyObj(ps),
                is_active |-> PyBool(ac), updated_at |-> PyDateTime(0)]] :
        nm \in {ShortName, LongNameA}, st \in {"development", "legacy"},
        ps \in {1, 2}, ac \in BOOLEAN}

\* the attribute assignments a request makes to an Application (the names
\* have 1, 100 and 101 characters)
AssignableFull ==
    {<<"name", PyStr(nm)>> :
        nm \in {ShortName, <<"B">>, Rep("x", TruncateOver), LongNameA, (Rep("x", TruncateOver) \o <<"b">>)}}
    \cup {<<"lifecycle_stage", PyStr(<<st>>)>> : st \in {"development", "testing", "legacy"}}
    \cup {<<"primary_server", PyObj(ps)>> : ps \in {1, 2}}
    \cup {<<"is_active", PyBool(ac)>> : ac \in BOOLEAN}

\* a request of alice on thread t1 holds an Application: one it loaded, or
\* one it constructed and has not saved
InitDetector ==
    /\ thread_local = [t \in Thread |-> IF t = "t1" THEN "alice" ELSE NoUser]
    /\ pc = [t \in Thread |-> IF t = "t1" THEN "request" ELSE "idle"]
    /\ unit_actor = [t \in Thread |-> IF t = "t1" THEN "alice" ELSE NoUser]
    /\ ops = 0
    /\ clock = 0
    /\ log = <<>>
    /\ log_ctx = <<>>
    /\ viewer = NoRun
    /\ sink = InitSink
    /\ command = NoCommand
    /\ savepoint = [t \in Thread |-> NoSavepoint]
    /\ \/ \E row \in DetectorRows :
              /\ db = [EmptyDb EXCEPT !["Application"] = row]
              /\ inst = [t \in Thread |->
                           IF t = "t1" THEN init_instance("Application", row.vals, FALSE)
                           ELSE NoInst]
       \/ \E vals \in NewVals("Application") :
              /\ db = EmptyDb
              /\ inst = [t \in Thread |->
                           IF t = "t1" THEN init_instance("Application", vals, TRUE)
                           ELSE NoInst]

NextDetector ==
    \/ \E a \in AssignableFull : SetAttr("t1", a[1], a[2])
    \/ Save("t1", Now)

SpecDetector == InitDetector /\ [][NextDetector]_vars

\* the same request, where the database can fail under the receiver
NextFaults ==
    \/ \E a \in AssignableFull : SetAttr("t1", a[1], a[2])
    \/ Save("t1", Now)
    \/ Save_receiver_raises("t1", Now)

SpecFaults == InitDetector /\ [][NextFaults]_vars

\* ------------------------------------------------ writes in a transaction
\* transaction.atomic, entered: the rows and the length of the log at entry
\* are remembered (the length is history, the code does not keep it)
atomic_enter(t) ==
    /\ pc[t] # "idle"
    /\ ops < MaxOps
    /\ ops' = ops + 1
    /\ ~savepoint[t].open
    /\ savepoint' = [savepoint EXCEPT ![t] = [open |-> TRUE, rows |-> db, events |-> Len(log)]]
    /\ UNCHANGED <<thread_local, pc, unit_actor, inst, db, clock, log, log_ctx, viewer, sink, command>>

\* transaction.atomic, left: with an exception the writes of the block are
\* rolled back, without one they are committed; audit.log is a file and is
\* no part of the transaction, the instances in memory neither
atomic_exit(t, exc) ==
    /\ pc[t] # "idle"
    /\ ops < MaxOps
    /\ ops' = ops + 1
    /\ savepoint[t].open
    /\ db' = IF exc THEN savepoint[t].rows ELSE db
    /\ savepoint' = [savepoint EXCEPT ![t] = NoSavepoint]
    /\ UNCHANGED <<thread_local, pc, unit_actor, inst, clock, log, log_ctx, viewer, sink, command>>

\* the request of alice writes its Application inside or outside an atomic
\* block, and the database can fail under the receiver
NextAtomic ==
    \/ atomic_enter("t1")
    \/ \E exc \in BOOLEAN : atomic_exit("t1", exc)
    \/ \E a \in Assignable("Application") : SetAttr("t1", a[1], a[2])
    \/ Save("t1", Now)
    \/ Save_receiver_raises("t1", Now)
    \/ Delete("t1", Now)

SpecAtomic == InitDetector /\ [][NextAtomic]_vars

\* ------------------------------------------- two requests, one entity
\* the requests of alice (t1) and bob (t2) run at the same time: both have
\* loaded the same Application row, or alice has constructed an Application
\* and bob a Language, neither saved yet
InitShared ==
    /\ thread_local = [t \in Thread |-> IF t = "t1" THEN "alice" ELSE "bob"]
    /\ pc = [t \in Thread |-> "request"]
    /\ unit_actor = [t \in Thread |-> IF t = "t1" THEN "alice" ELSE "bob"]
    /\ ops = 0
    /\ clock = 0
    /\ log = <<>>
    /\ log_ctx = <<>>
    /\ viewer = NoRun
    /\ sink = InitSink
    /\ command = NoCommand
    /\ savepoint = [t \in Thread |-> NoSavepoint]
    /\ \/ \E row \in DetectorRows :
              /\ row.vals["name"] = PyStr(ShortName)
              /\ row.vals["is_active"] = PyBool(TRUE)
              /\ db = [EmptyDb EXCEPT !["Application"] = row]
              /\ inst = [t \in Thread |-> init_instance("Application", row.vals, FALSE)]
       \/ \E va \in NewVals("Application"), vl \in NewVals("Language") :
              /\ db = EmptyDb
              /\ inst = [t \in Thread |->
                           IF t = "t1" THEN init_instance("Application", va, TRUE)
                           ELSE init_instance("Language", vl, TRUE)]

NextShared ==
    \E t \in Thread :
        \/ \E k \in Kind : \E a \in Assignable(k) : SetAttr(t, a[1], a[2])
        \/ Save(t, Now)
        \/ Delete(t, Now)

SpecShared == InitShared /\ [][NextShared]_vars

\* ------------------------------------------------- user profiles' inputs
ProfileRole ==
    {"application_admin", "systems_manager", "technician", "business_manager",
     "business_user"}

\* the UserProfile rows a request can find: every one was written by save(),
\* so an admin's row has documentation access
ProfileRows ==
    {[kind |-> "UserProfile",
      vals |-> [id |-> PyInt(1), role |-> PyStr(<<r>>),
                has_documentation_access |-> PyBool(a),
                updated_at |-> PyDateTime(0), user |-> PyStr(<<"carol">>)]] :
        r \in ProfileRole, a \in BOOLEAN}
    \ {[kind |-> "UserProfile",
        vals |-> [id |-> PyInt(1), role |-> PyStr(<<"application_admin">>),
                  has_documentation_access |-> PyBool(FALSE),
                  updated_at |-> PyDateTime(0), user |-> PyStr(<<"carol">>)]]}

\* a request of alice on thread t1, with or without a persisted profile
InitProfile ==
    /\ thread_local = [t \in Thread |-> IF t = "t1" THEN "alice" ELSE NoUser]
    /\ pc = [t \in Thread |-> IF t = "t1" THEN "request" ELSE "idle"]
    /\ unit_actor = [t \in Thread |-> IF t = "t1" THEN "alice" ELSE NoUser]
    /\ ops = 0
    /\ clock = 0
    /\ log = <<>>
    /\ log_ctx = <<>>
    /\ viewer = NoRun
    /\ sink = InitSink
    /\ command = NoCommand
    /\ savepoint = [t \in Thread |-> NoSavepoint]
    /\ inst = [t \in Thread |-> NoInst]
    /\ \E row \in ProfileRows \cup {NoRow} :
          db = [k \in Kind \cup {"UserProfile"} |-> IF k = "UserProfile" THEN row ELSE NoRow]

\* UserProfile(user=carol, role=..., has_documentation_access=...), a load,
\* the assignments a request makes to a profile, and save()
NextProfile ==
    \/ \E r \in ProfileRole, a \in BOOLEAN :
          Construct("t1", "UserProfile",
                    [id |-> PyNone, role |-> PyStr(<<r>>),
                     has_documentation_access |-> PyBool(a),
                     updated_at |-> PyNone, user |-> PyStr(<<"carol">>)])
    \/ Load("t1", "UserProfile")
    \/ \E r \in ProfileRole : SetAttr("t1", "role", PyStr(<<r>>))
    \/ \E a \in BOOLEAN : SetAttr("t1", "has_documentation_access", PyBool(a))
    \/ Save("t1", Now)

SpecProfile == InitProfile /\ [][NextProfile]_vars

\* ------------------- update_documentation_access (management command)
\* In the specification of the command the rows are kept by kind and
\* user: db[<<"User", u>>] is the row of user u and db[<<"UserProfile", u>>]
\* the row of u's profile (no row: the user, or the profile, does not exist).

\* a loop that creates the missing profiles also in dry-run mode
RECURSIVE handle_loop_dry_run_creates(_, _, _, _, _)
handle_loop_dry_run_creates(users, st, dry_run, t, now) ==
    IF users = <<>> THEN st
    ELSE
          LET u == Head(users)
              user == st.rows[<<"User", u>>]
              row == st.rows[<<"UserProfile", u>>]
              verb(a, b) == IF dry_run THEN a ELSE b
          IN  IF user = NoRow THEN handle_loop_dry_run_creates(Tail(users), st, dry_run, t, now)
              ELSE IF row # NoRow
              THEN LET profile == init_instance("UserProfile", row.vals, FALSE)
                       old_access == profile.vals["has_documentation_access"]
                       new_access ==
                           IF profile.vals["role"] \in {PyStr(<<"application_admin">>),
                                                        PyStr(<<"systems_manager">>)}
                           THEN PyBool(TRUE) ELSE old_access
                       display == <<u, " ", "(", ChoiceLabel(USER_ROLES, profile.vals["role"], 1),
                                    ")", ":", " ">>
                       i1 == audit_pre_save(UserProfile_save(
                                 [profile EXCEPT !.vals["has_documentation_access"] = new_access]))
                       i2 == [i1 EXCEPT !.vals = PreSaveLoop("UserProfile", i1.vals, now, 1)]
                       r == audit_post_save(i2, FALSE, t, now)
                   IN  IF old_access # new_access
                       THEN handle_loop_dry_run_creates(Tail(users),
                              [rows |-> IF dry_run THEN st.rows
                                        ELSE [st.rows EXCEPT ![<<"UserProfile", u>>].vals = i2.vals],
                               entries |-> IF dry_run THEN st.entries
                                           ELSE st.entries \o r.entries,
                               updated_count |-> st.updated_count + 1,
                               created_count |-> st.created_count,
                               out |-> Append(st.out,
                                          <<verb("Would update", "Updated"), " ">> \o display
                                          \o Str(old_access) \o <<" ", "->", " ">>
                                          \o Str(new_access))],
                              dry_run, t, now)
                       ELSE handle_loop_dry_run_creates(Tail(users),
                              [st EXCEPT !.out = Append(@, <<"No change needed for", " ">>
                                                           \o display \o Str(old_access))],
                              dry_run, t, now)
              ELSE LET role == IF Truthy(user.vals["is_superuser"])
                               THEN "application_admin" ELSE "business_user"
                       doc_access == PyBool(Truthy(user.vals["is_superuser"]))
                       profile == init_instance("UserProfile",
                                      [id |-> PyNone, role |-> PyStr(<<role>>),
                                       has_documentation_access |-> doc_access,
                                       updated_at |-> PyNone, user |-> PyStr(<<u>>)], TRUE)
                       i1 == audit_pre_save(UserProfile_save(profile))
                       i2 == [i1 EXCEPT
                                !.vals = [PreSaveLoop("UserProfile", i1.vals, now, 1)
                                             EXCEPT !["id"] = user.vals["id"]],
                                !.adding = FALSE]
                       r == audit_post_save(i2, TRUE, t, now)
                   IN  handle_loop_dry_run_creates(Tail(users),
                          [rows |-> IF FALSE THEN st.rows
                                    ELSE [st.rows EXCEPT ![<<"UserProfile", u>>] =
                                             [kind |-> "UserProfile", vals |-> i2.vals]],
                           entries |-> IF FALSE THEN st.entries
                                       ELSE st.entries \o r.entries,
                           updated_count |-> st.updated_count,
                           created_count |-> st.created_count + 1,
                           out |-> Append(st.out,
                                      <<verb("Would create", "Created"), " ", "profile for", " ",
                                        u, " ", "with role", " ", role, " ",
                                        "and documentation access:", " ">>
                                      \o Str(doc_access))],
                          dry_run, t, now)

\* Command.handle, the loop over User.objects.all() (lines 29-81): st holds
\* the rows, the audit entries the saves have logged, the two counters and
\* the lines written to stdout so far.  profile.save() and
\* UserProfile.objects.create() run the model's save override, the pre_save
\* receiver, the fields' pre_save, the write and the post_save receiver;
\* the key of a created profile is the one the database assigns (here the
\* user's).
RECURSIVE handle_loop(_, _, _, _, _)
handle_loop(users, st, dry_run, t, now) ==
    IF users = <<>> THEN st
    ELSE
          LET u == Head(users)
              user == st.rows[<<"User", u>>]
              row == st.rows[<<"UserProfile", u>>]
              verb(a, b) == IF dry_run THEN a ELSE b
          IN  IF user = NoRow THEN handle_loop(Tail(users), st, dry_run, t, now)
              ELSE IF row # NoRow
              THEN LET profile == init_instance("UserProfile", row.vals, FALSE)
                       old_access == profile.vals["has_documentation_access"]
                       new_access ==
                           IF profile.vals["role"] \in {PyStr(<<"application_admin">>),
                                                        PyStr(<<"systems_manager">>)}
                           THEN PyBool(TRUE) ELSE old_access
                       display == <<u, " ", "(", ChoiceLabel(USER_ROLES, profile.vals["role"], 1),
                                    ")", ":", " ">>
                       i1 == audit_pre_save(UserProfile_save(
                                 [profile EXCEPT !.vals["has_documentation_access"] = new_access]))
                       i2 == [i1 EXCEPT !.vals = PreSaveLoop("UserProfile", i1.vals, now, 1)]
                       r == audit_post_save(i2, FALSE, t, now)
                   IN  IF old_access # new_access
                       THEN handle_loop(Tail(users),
                              [rows |-> IF dry_run THEN st.rows
                                        ELSE [st.rows EXCEPT ![<<"UserProfile", u>>].vals = i2.vals],
                               entries |-> IF dry_run THEN st.entries
                                           ELSE st.entries \o r.entries,
                               updated_count |-> st.updated_count + 1,
                               created_count |-> st.created_count,
                               out |-> Append(st.out,
                                          <<verb("Would update", "Updated"), " ">> \o display
                                          \o Str(old_access) \o <<" ", "->", " ">>
                                          \o Str(new_access))],
                              dry_run, t, now)
                       ELSE handle_loop(Tail(users),
                              [st EXCEPT !.out = Append(@, <<"No change needed for", " ">>
                                                           \o display \o Str(old_access))],
                              dry_run, t, now)
              ELSE LET role == IF Truthy(user.vals["is_superuser"])
                               THEN "application_admin" ELSE "business_user"
                       doc_access == PyBool(Truthy(user.vals["is_superuser"]))
                       profile == init_instance("UserProfile",
                                      [id |-> PyNone, role |-> PyStr(<<role>>),
                                       has_documentation_access |-> doc_access,
                                       updated_at |-> PyNone, user |-> PyStr(<<u>>)], TRUE)
                       i1 == audit_pre_save(UserProfile_save(profile))
                       i2 == [i1 EXCEPT
                                !.vals = [PreSaveLoop("UserProfile", i1.vals, now, 1)
                                             EXCEPT !["id"] = user.vals["id"]],
                                !.adding = FALSE]
                       r == audit_post_save(i2, TRUE, t, now)
                   IN  handle_loop(Tail(users),
                          [rows |-> IF dry_run THEN st.rows
                                    ELSE [st.rows EXCEPT ![<<"UserProfile", u>>] =
                                             [kind |-> "UserProfile", vals |-> i2.vals]],
                           entries |-> IF dry_run THEN st.entries
                                       ELSE st.entries \o r.entries,
                           updated_count |-> st.updated_count,
                           created_count |-> st.created_count + 1,
                           out |-> Append(st.out,
                                      <<verb("Would create", "Created"), " ", "profile for", " ",
                                        u, " ", "with role", " ", role, " ",
                                        "and documentation access:", " ">>
                                      \o Str(doc_access))],
                          dry_run, t, now)

\* manage.py update_documentation_access [--dry-run] on an idle thread:
\* Command.handle as a whole
update_documentation_access(t, dry_run, now) ==
    /\ pc[t] = "idle"
    /\ ops < MaxOps
    /\ ops' = ops + 1
    /\ clock' = now
    /\ LET st == handle_loop(<<"alice", "bob">>,
                             [rows |-> db, entries |-> <<>>, updated_count |-> 0,
                              created_count |-> 0, out |-> <<>>], dry_run, t, now)
           verb(a, b) == IF dry_run THEN a ELSE b
       IN  /\ db' = st.rows
           /\ Emit(st.entries, t, NoUser, thread_local[t], now)
           /\ command' =
                  [ran |-> TRUE, dry_run |-> dry_run, before |-> db,
                   stdout |->
                      (IF dry_run THEN << <<"DRY RUN MODE - No changes will be made">> >>
                       ELSE <<>>)
                      \o st.out
                      \o << <<"\n", verb("Would update", "Updated"), " ",
                              Digit(st.updated_count), " ", "existing profiles">>,
                            <<verb("Would create", "Created"), " ",
                              Digit(st.created_count), " ", "new profiles">> >>
                      \o (IF dry_run
                          THEN << <<"\n", "Run without --dry-run to apply these changes">> >>
                          ELSE <<>>)]
    /\ UNCHANGED <<thread_local, pc, unit_actor, inst, viewer, savepoint>>

\* the users and profiles the command can find: each of alice and bob does
\* not exist, or is a superuser or not and has no profile or a profile of
\* any role with or without documentation access (rows written before the
\* save override existed included)
InitCommand ==
    /\ thread_local = [t \in Thread |-> NoUser]
    /\ pc = [t \in Thread |-> "idle"]
    /\ unit_actor = [t \in Thread |-> NoUser]
    /\ ops = 0
    /\ inst = [t \in Thread |-> NoInst]
    /\ clock = 0
    /\ log = <<>>
    /\ log_ctx = <<>>
    /\ viewer = NoRun
    /\ sink = InitSink
    /\ command = NoCommand
    /\ savepoint = [t \in Thread |-> NoSavepoint]
    /\ \E people \in [Actor ->
             {[user |-> "none", profile |-> NoRow]}
             \cup {[user |-> su, profile |-> p] :
                      su \in {"superuser", "user"},
                      p \in {NoRow} \cup {[role |-> r, access |-> a] :
                                             r \in ProfileRole, a \in BOOLEAN}}] :
          db = [key \in {"User", "UserProfile"} \X Actor |->
                  LET u == key[2]
                      who == people[u]
                  IN  IF who.user = "none" \/ (key[1] = "UserProfile" /\ who.profile = NoRow)
                      THEN NoRow
                      ELSE IF key[1] = "User"
                      THEN [kind |-> "User",
                            vals |-> [id |-> user_id(u), username |-> PyStr(<<u>>),
                                      is_superuser |-> PyBool(who.user = "superuser")]]
                      ELSE [kind |-> "UserProfile",
                            vals |-> [id |-> user_id(u), role |-> PyStr(<<who.profile.role>>),
                                      has_documentation_access |-> PyBool(who.profile.access),
                                      updated_at |-> PyDateTime(0), user |-> PyStr(<<u>>)]]]

NextCommand ==
    \E dry_run \in BOOLEAN : update_documentation_access("t1", dry_run, Now)

SpecCommand == InitCommand /\ [][NextCommand]_vars

\* --------------------------------------------------- JSON (json module)
\* A JSON value is a tagged record: a str, None, a bool or an int as above,
\* or a dict [t |-> "dict", v |-> the sequence of its <<key, value>> items].
\* The texts of the model hold no lists, floats, negative numbers or \u
\* escapes, no control character but the line feed, and no dict repeats a
\* key.
JDict(items) == [t |-> "dict", v |-> items]

\* the characters json.dumps writes for the characters of a string
RECURSIVE Escape(_)
Escape(str) ==
    IF str = <<>> THEN <<>>
    ELSE (IF Head(str) \in {"\"", "\\"} THEN <<"\\", Head(str)>>
          ELSE IF Head(str) = "\n" THEN <<"\\", "n">>
          ELSE <<Head(str)>>)
         \o Escape(Tail(str))

\* json.dumps(value, separators=(',', ':'))
RECURSIVE dumps(_)
RECURSIVE DumpItems(_, _)
DumpItems(items, n) ==
    IF n > Len(items) THEN <<>>
    ELSE (IF n > 1 THEN <<",">> ELSE <<>>)
         \o <<"\"">> \o Escape(items[n][1]) \o <<"\"", ":">> \o dumps(items[n][2])
         \o DumpItems(items, n + 1)

dumps(value) ==
    CASE value.t = "str" -> <<"\"">> \o Escape(value.v) \o <<"\"">>
      [] value.t = "None" -> <<"n", "u", "l", "l">>
      [] value.t = "bool" -> IF value.v = <<"True">> THEN <<"t", "r", "u", "e">>
                             ELSE <<"f", "a", "l", "s", "e">>
      [] value.t = "int" -> value.v
      [] OTHER -> <<"{">> \o DumpItems(value.v, 1) \o <<"}">>

\* the result of a step of the decoder: whether it succeeded, the value it
\* read and the position after it
Fail == [ok |-> FALSE, val |-> PyNone, next |-> 0]
Ok(val, next) == [ok |-> TRUE, val |-> val, next |-> next]

IsSpace(c) == c \in {" ", "\t", "\n", "\r"}
IsDigit(c) == \E d \in 1..Len(Digits) : Digits[d] = c

RECURSIVE SkipSpace(_, _)
SkipSpace(text, p) ==
    IF p <= Len(text) /\ IsSpace(text[p]) THEN SkipSpace(text, p + 1) ELSE p

\* a string literal, from the position after its opening quote
RECURSIVE ScanString(_, _, _)
ScanString(text, p, acc) ==
    IF p > Len(text) THEN Fail
    ELSE IF text[p] = "\"" THEN Ok(PyStr(acc), p + 1)
    ELSE IF text[p] = "\\"
    THEN IF p + 1 <= Len(text) /\ text[p + 1] \in {"\"", "\\", "/"}
         THEN ScanString(text, p + 2, Append(acc, text[p + 1]))
         ELSE IF p + 1 <= Len(text) /\ text[p + 1] = "n"
         THEN ScanString(text, p + 2, Append(acc, "\n"))
         ELSE Fail
    ELSE IF text[p] \in {"\t", "\n", "\r"} THEN Fail
    ELSE ScanString(text, p + 1, Append(acc, text[p]))

\* a run of digits
RECURSIVE ScanInt(_, _, _)
ScanInt(text, p, acc) ==
    IF p <= Len(text) /\ IsDigit(text[p])
    THEN ScanInt(text, p + 1, Append(acc, text[p]))
    ELSE IF Len(acc) > 1 /\ acc[1] = "0" THEN Fail
    ELSE Ok([t |-> "int", v |-> acc], p)

StartsWith(text, p, word) ==
    p + Len(word) - 1 <= Len(text) /\ SubSeq(text, p, p + Len(word) - 1) = word

RECURSIVE ParseValue(_, _)
RECURSIVE ParseMembers(_, _, _)
\* the members of an object, from the position of a key
ParseMembers(text, p, acc) ==
    IF p > Len(text) \/ text[p] # "\"" THEN Fail
    ELSE LET key == ScanString(text, p + 1, <<>>) IN
         IF ~key.ok THEN Fail
         ELSE LET colon == SkipSpace(text, key.next) IN
              IF colon > Len(text) \/ text[colon] # ":" THEN Fail
              ELSE LET value == ParseValue(text, colon + 1) IN
                   IF ~value.ok THEN Fail
                   ELSE LET q == SkipSpace(text, value.next)
                            items == Append(acc, <<key.val.v, value.val>>)
                        IN  IF q > Len(text) THEN Fail
                            ELSE IF text[q] = "}" THEN Ok(JDict(items), q + 1)
                            ELSE IF text[q] = ","
                            THEN ParseMembers(text, SkipSpace(text, q + 1), items)
                            ELSE Fail

\* a value, from position p
ParseValue(text, p) ==
    LET q == SkipSpace(text, p) IN
    IF q > Len(text) THEN Fail
    ELSE IF text[q] = "\"" THEN ScanString(text, q + 1, <<>>)
    ELSE IF text[q] = "{"
    THEN LET m == SkipSpace(text, q + 1) IN
         IF m <= Len(text) /\ text[m] = "}" THEN Ok(JDict(<<>>), m + 1)
         ELSE ParseMembers(text, m, <<>>)
    ELSE IF IsDigit(text[q]) THEN ScanInt(text, q, <<>>)
    ELSE IF StartsWith(text, q, <<"n", "u", "l", "l">>) THEN Ok(PyNone, q + 4)
    ELSE IF StartsWith(text, q, <<"t", "r", "u", "e">>) THEN Ok(PyBool(TRUE), q + 4)
    ELSE IF StartsWith(text, q, <<"f", "a", "l", "s", "e">>) THEN Ok(PyBool(FALSE), q + 5)
    ELSE Fail

\* json.loads(text): ok is FALSE where it raises JSONDecodeError
loads(text) ==
    LET r == ParseValue(text, 1) IN
    IF r.ok /\ SkipSpace(text, r.next) > Len(text) THEN Ok(r.val, r.next) ELSE Fail

\* key in data, data[key]
HasKey(data, key) == \E n \in 1..Len(data.v) : data.v[n][1] = key
GetItem(data, key) ==
    LET n == CHOOSE m \in 1..Len(data.v) : data.v[m][1] = key IN data.v[n][2]

\* ------------------------------------------- sink (AuditFormatter.format)
\* the audit_entry dict of log_change as a JSON value
audit_entry(e) ==
    JDict(<< <<<<"timestamp">>, PyStr(e.timestamp)>>,
             <<<<"action">>, PyStr(e.action)>>,
             <<<<"model">>, PyStr(e.model)>>,
             <<<<"object_id">>, PyStr(e.object_id)>>,
             <<<<"object_str">>, PyStr(e.object_str)>>,
             <<<<"user">>, PyStr(e.user)>>,
             <<<<"user_id">>, e.user_id>>,
             <<<<"changes">>,
               JDict([n \in 1..Len(e.changes) |->
                        <<<<e.changes[n][1]>>,
                          JDict(<< <<<<"old">>, PyStr(e.changes[n][2].old)>>,
                                   <<<<"new">>, PyStr(e.changes[n][2].new)>> >>)>>])>>,
             <<<<"additional_info">>,
               JDict([n \in 1..Len(e.additional_info) |->
                        <<<<e.additional_info[n][1]>>, e.additional_info[n][2]>>])>> >>)

\* the message log_change passes to logger.info
getMessage(e) == dumps(audit_entry(e))

\* f"{value}" of a decoded JSON scalar
FStr(value) == Str(value)

\* '; '.join(f"{field}: {old} -> {new}" ...) over data['changes'].items()
RECURSIVE JoinChanges(_, _)
JoinChanges(items, n) ==
    IF n > Len(items) THEN <<>>
    ELSE (IF n > 1 THEN <<";", " ">> ELSE <<>>)
         \o items[n][1] \o <<":", " ">>
         \o (IF HasKey(items[n][2], <<"old">>) THEN FStr(GetItem(items[n][2], <<"old">>))
             ELSE <<"None">>)
         \o <<" ", "-", ">", " ">>
         \o (IF HasKey(items[n][2], <<"new">>) THEN FStr(GetItem(items[n][2], <<"new">>))
             ELSE <<"None">>)
         \o JoinChanges(items, n + 1)

\* '; '.join(f"{key}: {value}" ...) over data['additional_info'].items()
RECURSIVE JoinInfo(_, _)
JoinInfo(items, n) ==
    IF n > Len(items) THEN <<>>
    ELSE (IF n > 1 THEN <<";", " ">> ELSE <<>>)
         \o items[n][1] \o <<":", " ">> \o FStr(items[n][2])
         \o JoinInfo(items, n + 1)

\* the marker the formatter writes before the JSON document of a line and
\* the reader looks for
Marker == <<"|", " ", "J", "S", "O", "N", ":", " ">>

\* AuditFormatter.format of a record with the given message, at tick now
format(message, now) ==
    LET r == loads(message)
        data == r.val
        required == {<<"timestamp">>, <<"action">>, <<"model">>, <<"object_id">>,
                     <<"object_str">>, <<"user">>}
    IN  IF ~r.ok \/ \E key \in required : ~HasKey(data, key)
        THEN <<"[">> \o strftime(now) \o <<"]", " ", "AUDIT_ERROR", ":", " ">> \o message
        ELSE LET action == GetItem(data, <<"action">>).v
                 base == <<"[">> \o GetItem(data, <<"timestamp">>).v \o <<"]", " ">>
                         \o action \o <<" ">> \o GetItem(data, <<"model">>).v
                         \o <<"#">> \o GetItem(data, <<"object_id">>).v
                         \o <<" ", "by", " ">> \o GetItem(data, <<"user">>).v
                         \o <<":", " ">> \o GetItem(data, <<"object_str">>).v
                 changes == IF action = <<"UPDATE">> /\ HasKey(data, <<"changes">>)
                               /\ GetItem(data, <<"changes">>).v # <<>>
                            THEN <<" ", "|", " ", "Changes", ":", " ">>
                                 \o JoinChanges(GetItem(data, <<"changes">>).v, 1)
                            ELSE <<>>
                 info == IF HasKey(data, <<"additional_info">>)
                            /\ GetItem(data, <<"additional_info">>).v # <<>>
                         THEN <<" ", "|", " ", "Info", ":", " ">>
                              \o JoinInfo(GetItem(data, <<"additional_info">>).v, 1)
                         ELSE <<>>
             IN  base \o changes \o info \o <<" ">> \o Marker \o dumps(data)

\* record n of logs/audit.log: the formatted record of entry n
audit_log(n) == format(getMessage(log[n]), log_ctx[n].tick)

\* the text of the pieces written: the formatted record of the entry, or
\* the terminator
RECURSIVE TextOf(_)
TextOf(chunks) ==
    IF chunks = <<>> THEN <<>>
    ELSE (IF Head(chunks).part = "msg" THEN audit_log(Head(chunks).rec) ELSE <<"\n">>)
         \o TextOf(Tail(chunks))

\* the text of logs/audit.log
audit_file == TextOf(sink.file)

\* ------------------------------------- log reader (bin/view_audit_logs.py)
\* line.rfind('| JSON: '): the last position the marker starts at, 0 (the
\* reader's -1) when there is none
rfind(line, marker) ==
    LET found == {p \in 1..Len(line) : StartsWith(line, p, marker)} IN
    IF found = {} THEN 0 ELSE CHOOSE p \in found : \A q \in found : q <= p

\* str.strip()
RECURSIVE strip(_)
strip(str) ==
    IF str # <<>> /\ IsSpace(Head(str)) THEN strip(Tail(str))
    ELSE IF str # <<>> /\ IsSpace(str[Len(str)]) THEN strip(SubSeq(str, 1, Len(str) - 1))
    ELSE str

\* parse_log_entry: ok is FALSE where it returns None
parse_log_entry(line) ==
    LET json_start == rfind(line, Marker) IN
    IF json_start = 0 THEN Fail
    ELSE loads(strip(SubSeq(line, json_start + MarkerSkip, Len(line))))

\* f.readlines(): the text cut after every line feed (the texts of the
\* model hold no carriage return)
readlines(text) ==
    LET nl == {p \in 1..Len(text) : text[p] = "\n"}
        open_end == IF text # <<>> /\ text[Len(text)] # "\n" THEN 1 ELSE 0
        end(k) == IF k <= Cardinality(nl)
                  THEN CHOOSE p \in nl : Cardinality({q \in nl : q < p}) = k - 1
                  ELSE Len(text)
        start(k) == IF k = 1 THEN 1 ELSE end(k - 1) + 1
    IN  [k \in 1..(Cardinality(nl) + open_end) |-> SubSeq(text, start(k), end(k))]

\* the letters, upper case and lower case
Letters ==
    << <<"A", "a">>, <<"B", "b">>, <<"C", "c">>, <<"D", "d">>, <<"E", "e">>,
       <<"F", "f">>, <<"G", "g">>, <<"H", "h">>, <<"I", "i">>, <<"J", "j">>,
       <<"K", "k">>, <<"L", "l">>, <<"M", "m">>, <<"N", "n">>, <<"O", "o">>,
       <<"P", "p">>, <<"Q", "q">>, <<"R", "r">>, <<"S", "s">>, <<"T", "t">>,
       <<"U", "u">>, <<"V", "v">>, <<"W", "w">>, <<"X", "x">>, <<"Y", "y">>,
       <<"Z", "z">> >>

\* str.lower() and str.upper() of a text written letter by letter
lower(str) ==
    [p \in 1..Len(str) |->
        IF \E n \in 1..Len(Letters) : Letters[n][1] = str[p]
        THEN Letters[CHOOSE n \in 1..Len(Letters) : Letters[n][1] = str[p]][2]
        ELSE str[p]]
upper(str) ==
    [p \in 1..Len(str) |->
        IF \E n \in 1..Len(Letters) : Letters[n][2] = str[p]
        THEN Letters[CHOOSE n \in 1..Len(Letters) : Letters[n][2] = str[p]][1]
        ELSE str[p]]

\* sub in str
Contains(sub, str) ==
    \E p \in 1..(Len(str) - Len(sub) + 1) : SubSeq(str, p, p + Len(sub) - 1) = sub

\* datetime.strptime(text, '%Y-%m-%d %H:%M:%S'): ok is FALSE where it raises
\* ValueError.  The texts of the model are zero-padded dates with every
\* field in range, or no dates at all.
DateShape == <<"d", "d", "d", "d", "-", "d", "d", "-", "d", "d", " ",
               "d", "d", ":", "d", "d", ":", "d", "d">>
strptime(text) ==
    IF /\ Len(text) = Len(DateShape)
       /\ \A p \in 1..Len(DateShape) :
              IF DateShape[p] = "d" THEN IsDigit(text[p]) ELSE text[p] = DateShape[p]
    THEN [ok |-> TRUE,
          val |-> [p \in 1..Len(text) |->
                     IF IsDigit(text[p])
                     THEN (CHOOSE d \in 1..Len(Digits) : Digits[d] = text[p]) - 1
                     ELSE 0]]
    ELSE [ok |-> FALSE, val |-> <<>>]

\* a < b for two datetimes
Before(a, b) ==
    \E p \in 1..Len(a) : a[p] < b[p] /\ \A q \in 1..(p - 1) : a[q] = b[q]

\* entry.get(key, default)
EntryGet(entry, key, default) ==
    IF HasKey(entry, key) THEN GetItem(entry, key) ELSE default

\* the filters dict main builds from the arguments (an option that was not
\* given, or was given empty, is the empty text); invalid is TRUE where the
\* --since text makes strptime raise
BuildFilters(args) ==
    [user |-> args.user,
     action |-> upper(args.action),
     model |-> args.model,
     since |-> IF args.since = <<>> THEN <<>> ELSE strptime(args.since).val,
     invalid |-> args.since # <<>> /\ ~strptime(args.since).ok]

\* a filter that compares the texts as they are written
TextFilter_case_sensitive(entry, key, wanted, substring) ==
    IF wanted = <<>> THEN "pass"
    ELSE IF entry.t # "dict" THEN "raise"
    ELSE LET value == EntryGet(entry, key, PyStr(<<>>)) IN
         IF value.t # "str" THEN "raise"
         ELSE IF substring
         THEN IF Contains(wanted, value.v) THEN "pass" ELSE "False"
         ELSE IF value.v # wanted THEN "False" ELSE "pass"

\* one text filter of filter_entry: "pass" when the entry goes on to the
\* next filter, "False" when the filter rejects it, "raise" when the
\* attribute access raises (entry is no dict, the value is no str)
TextFilter(entry, key, wanted, substring) ==
    IF wanted = <<>> THEN "pass"
    ELSE IF entry.t # "dict" THEN "raise"
    ELSE LET value == EntryGet(entry, key, PyStr(<<>>)) IN
         IF value.t # "str" THEN "raise"
         ELSE IF substring
         THEN IF Contains(lower(wanted), lower(value.v)) THEN "pass" ELSE "False"
         ELSE IF lower(value.v) # lower(wanted) THEN "False" ELSE "pass"

\* the since filter of filter_entry
SinceFilter(entry, since) ==
    IF since = <<>> THEN "pass"
    ELSE IF entry.t # "dict" THEN "raise"
    ELSE LET value == EntryGet(entry, <<"timestamp">>, PyStr(<<>>)) IN
         IF value.t # "str" THEN "raise"
         ELSE LET entry_time == strptime(value.v) IN
              IF ~entry_time.ok THEN "pass"
              ELSE IF Before(entry_time.val, since) THEN "False" ELSE "pass"

\* filter_entry: "True", "False", or "raise" where an exception leaves it
filter_entry(entry, filters) ==
    IF ~Truthy(entry) THEN "False"
    ELSE LET user == TextFilter(entry, <<"user">>, filters.user, FALSE) IN
         IF user # "pass" THEN user
         ELSE LET action == TextFilter(entry, <<"action">>, filters.action, FALSE) IN
              IF action # "pass" THEN action
              ELSE LET model == TextFilter(entry, <<"model">>, filters.model, TRUE) IN
                   IF model # "pass" THEN model
                   ELSE LET since == SinceFilter(entry, filters.since) IN
                        IF since # "pass" THEN since ELSE "True"

\* whether format_entry_human raises for the entry: entry.get on a value
\* that is no dict, .items() on changes or additional_info that are no
\* dicts, change.get on a change that is no dict ('UPDATE' is written as one
\* word or letter by letter)
HumanRaises(entry) ==
    IF entry.t # "dict" THEN TRUE
    ELSE LET changes == EntryGet(entry, <<"changes">>, PyNone)
             info == EntryGet(entry, <<"additional_info">>, PyNone)
         IN  \/ /\ EntryGet(entry, <<"action">>, PyStr(<<"Unknown">>))
                       \in {PyStr(<<"UPDATE">>), PyStr(<<"U", "P", "D", "A", "T", "E">>)}
                /\ Truthy(changes)
                /\ \/ changes.t # "dict"
                   \/ \E n \in 1..Len(changes.v) : changes.v[n][2].t # "dict"
             \/ Truthy(info) /\ info.t # "dict"

\* lines[-n:]
LastLines(lines, n) ==
    SubSeq(lines, IF Len(lines) > n THEN Len(lines) - n + 1 ELSE 1, Len(lines))

\* the loop of main over the lines: the entries appended to
\* matching_entries, and whether filter_entry raised
RECURSIVE MatchLoop(_, _, _, _)
MatchLoop(lines, filters, n, matching) ==
    IF n > Len(lines) THEN [raised |-> FALSE, entries |-> matching]
    ELSE LET line == strip(lines[n]) IN
         IF line = <<>> THEN MatchLoop(lines, filters, n + 1, matching)
         ELSE LET entry == parse_log_entry(line) IN
              IF ~entry.ok \/ ~Truthy(entry.val)
              THEN MatchLoop(lines, filters, n + 1, matching)
              ELSE LET keep == filter_entry(entry.val, filters) IN
                   IF keep = "raise" THEN [raised |-> TRUE, entries |-> matching]
                   ELSE IF keep = "True"
                   THEN MatchLoop(lines, filters, n + 1, Append(matching, entry.val))
                   ELSE MatchLoop(lines, filters, n + 1, matching)

\* the loop of main that prints the matching entries: the entries printed,
\* and whether format_entry_human raised
RECURSIVE PrintLoop(_, _, _, _)
PrintLoop(entries, json_only, n, printed) ==
    IF n > Len(entries) THEN [raised |-> FALSE, entries |-> printed]
    ELSE IF ~json_only /\ HumanRaises(entries[n])
    THEN [raised |-> TRUE, entries |-> printed]
    ELSE PrintLoop(entries, json_only, n + 1, Append(printed, entries[n]))

\* what a run of the tool did: its exit status, the messages print wrote to
\* the standard output, what it wrote to the standard error (the tool has no
\* statement that writes there) and the entries it printed
Outcome(status, messages, printed) ==
    [exit |-> status, stdout |-> messages, stderr |-> <<>>, printed |-> printed]

\* the end of main: what it prints and how it exits, given the result of
\* the loop over the lines
Report(found, json_only) ==
    IF found.raised THEN Outcome(1, <<"Error reading audit log">>, <<>>)
    ELSE IF found.entries = <<>>
    THEN Outcome(0, <<"No matching audit log entries found">>, <<>>)
    ELSE LET shown == PrintLoop(found.entries, json_only, 1, <<>>) IN
         IF shown.raised
         THEN Outcome(1, <<"Found matching audit log entries", "Error reading audit log">>,
                      shown.entries)
         ELSE Outcome(0, <<"Found matching audit log entries">>, shown.entries)

\* the start of main: the outcome when it ends before it reads a line, and
\* none otherwise
NotRead == [exit |-> -1]
Preamble(args, file) ==
    IF ~args.log_file /\ ~file.exists
    THEN Outcome(1, <<"Error: Could not find audit.log file. Please specify path with --log-file",
                      "Searched: ./logs/audit.log, /var/log/app-tracker/audit.log, ../logs/audit.log">>,
                 <<>>)
    ELSE IF BuildFilters(args).invalid
    THEN Outcome(1, <<"Error: --since must be in format 'YYYY-MM-DD HH:MM:SS'">>, <<>>)
    ELSE IF ~file.exists
    THEN Outcome(1, <<"Error: Could not find audit log file">>, <<>>)
    ELSE IF ~file.readable
    THEN Outcome(1, <<"Error: Permission denied reading audit log file">>, <<>>)
    ELSE IF readlines(file.text) = <<>>
    THEN Outcome(0, <<"Audit log file is empty">>, <<>>)
    ELSE NotRead

\* a main that takes the last entries that passed the filters
main_tail_after_filter(args, file) ==
    IF Preamble(args, file) # NotRead THEN Preamble(args, file)
    ELSE LET found == MatchLoop(readlines(file.text), BuildFilters(args), 1, <<>>) IN
         Report([found EXCEPT !.entries = IF args.tail > 0 THEN LastLines(@, args.tail) ELSE @],
                args.json_only)

\* main with the parsed arguments args, where file is what the path it looks
\* at holds
main(args, file) ==
    IF Preamble(args, file) # NotRead THEN Preamble(args, file)
    ELSE LET lines == readlines(file.text)
             window == IF args.tail > 0 THEN LastLines(lines, args.tail) ELSE lines
         IN  Report(MatchLoop(window, BuildFilters(args), 1, <<>>), args.json_only)

\* a run of the tool
RunViewer(args, file) ==
    viewer' = [ran |-> TRUE, args |-> args, file |-> file, events |-> Len(log),
               out |-> main(args, file)]

\* a run of the tool on the audit.log the logger writes, without filters
view_audit_logs ==
    /\ \E json_only \in BOOLEAN :
          RunViewer([log_file |-> FALSE, json_only |-> json_only, user |-> <<>>,
                     action |-> <<>>, model |-> <<>>, since |-> <<>>, tail |-> 0],
                    [exists |-> TRUE, readable |-> TRUE, text |-> audit_file])
    /\ UNCHANGED <<thread_local, pc, unit_actor, ops, inst, db, clock, log, log_ctx, sink, command, savepoint>>

\* the texts the calls of FmtCalls pass: plain, with a quote and a
\* backslash, with the characters of the marker, and of two lines
PlainText == <<"A">>
MarkerText == <<"x", " ">> \o Marker \o <<"y">>

\* direct calls of log_change with these texts as entity display, change
\* value and metadata
FmtCalls ==
    {[action |-> <<"UPDATE">>, model_name |-> <<"inventory.Application">>,
      object_id |-> <<"7">>, object_str |-> txt,
      changes |-> << <<"name", [old |-> PlainText, new |-> txt]>> >>,
      user |-> NoUser, additional_info |-> <<>>] :
        txt \in {PlainText, <<"a", "\"", "b", "\\", "c">>, MarkerText, <<"p", "\n", "q">>}}
    \cup
    {[action |-> <<"TEST">>, model_name |-> <<"System">>,
      object_id |-> <<"test">>, object_str |-> PlainText,
      changes |-> <<>>, user |-> "bob",
      additional_info |-> << <<"test_run", PyBool(TRUE)>>, <<"note", PyStr(txt)>> >>] :
        txt \in {MarkerText}}

\* a request on thread t1, by alice or anonymous, and an empty log file
InitFmt ==
    /\ \E user \in {"alice", NoUser} :
          /\ thread_local = [t \in Thread |-> IF t = "t1" THEN user ELSE NoUser]
          /\ unit_actor = [t \in Thread |-> IF t = "t1" THEN user ELSE NoUser]
    /\ pc = [t \in Thread |-> IF t = "t1" THEN "request" ELSE "idle"]
    /\ ops = 0
    /\ inst = [t \in Thread |-> NoInst]
    /\ db = EmptyDb
    /\ clock = 0
    /\ log = <<>>
    /\ log_ctx = <<>>
    /\ viewer = NoRun
    /\ sink = InitSink
    /\ command = NoCommand
    /\ savepoint = [t \in Thread |-> NoSavepoint]

NextFmt ==
    \/ Len(log) < MaxEvents /\ \E c \in FmtCalls : LogChangeDirect("t1", c, Now)
    \/ view_audit_logs

SpecFmt == InitFmt /\ [][NextFmt]_vars

\* ------------------------------------------------ the log viewer's inputs
\* the largest --tail of the runs
MaxTail == 2

\* an entry as log_change builds it, with its texts written letter by letter
ViewerEvent(tick, action, model, user, uid) ==
    [timestamp |-> strftime(tick), action |-> action, model |-> model,
     object_id |-> <<"7">>, object_str |-> <<"A">>, user |-> user,
     user_id |-> PyInt(uid),
     changes |-> IF action = <<"U", "P", "D", "A", "T", "E">>
                 THEN << <<"name", [old |-> <<"A">>, new |-> <<"B">>]>> >> ELSE <<>>,
     additional_info |-> <<>>]

InvApp == <<"i", "n", "v", ".", "A", "p", "p">>

\* the lines of the files: a CREATE by alice, an UPDATE by bob and a DELETE
\* by alice as the formatter writes them, one second apart; a blank line; a
\* line without the marker; lines whose JSON segment is invalid, is a
\* number, is an object whose user is null, is an object whose timestamp is
\* no date (the keys of an object are written as one word, as audit_entry
\* has them)
ViewerLine ==
    [kind \in {"create", "update", "delete", "blank", "plain", "broken", "number",
               "null user", "undated"} |->
        CASE kind \in {"create", "update", "delete"} ->
                LET tick == CASE kind = "create" -> 0 [] kind = "update" -> 2 [] OTHER -> 4
                    action == CASE kind = "create" -> <<"C", "R", "E", "A", "T", "E">>
                                [] kind = "update" -> <<"U", "P", "D", "A", "T", "E">>
                                [] OTHER -> <<"D", "E", "L", "E", "T", "E">>
                    bob == kind = "update"
                IN  format(getMessage(ViewerEvent(tick, action,
                                                  IF kind = "delete" THEN <<"i", "n", "v", ".", "S", "r", "v">> ELSE InvApp,
                                                  IF bob THEN <<"b", "o", "b">>
                                                  ELSE <<"a", "l", "i", "c", "e">>,
                                                  IF bob THEN 2 ELSE 1)), tick)
          [] kind = "blank" -> <<" ">>
          [] kind = "plain" -> <<"s", "t", "a", "r", "t", "e", "d">>
          [] kind = "broken" ->
                <<"x", " ">> \o Marker \o <<"{", "\"", "u", "s", "e", "r", "\"", ":">>
          [] kind = "number" -> <<"x", " ">> \o Marker \o <<"5">>
          [] OTHER ->
                <<"x", " ">> \o Marker
                \o dumps(JDict(<< <<<<"timestamp">>, PyStr(<<"n", "/", "a">>)>>,
                                  <<<<"action">>, PyStr(<<"U", "P", "D", "A", "T", "E">>)>>,
                                  <<<<"model">>, PyStr(InvApp)>>,
                                  <<<<"user">>, IF kind = "undated" THEN PyStr(<<"B", "o", "b">>)
                                               ELSE PyNone>> >>))]

\* the text of a file with the given lines
RECURSIVE FileText(_)
FileText(kinds) ==
    IF kinds = <<>> THEN <<>>
    ELSE ViewerLine[Head(kinds)] \o <<"\n">> \o FileText(Tail(kinds))

\* the files the tool is run on
ViewerTexts ==
    {FileText(kinds) :
        kinds \in {<<>>,
                   <<"create", "update", "delete">>,
                   <<"create", "blank", "plain", "update", "broken", "undated", "delete">>,
                   <<"create", "number", "update">>,
                   <<"update", "null user", "delete">>}}

\* no entry has been logged; the tool is about to be run with any of the
\* options on a file with one of the texts, an unreadable or a missing file
InitViewer ==
    /\ thread_local = [t \in Thread |-> NoUser]
    /\ pc = [t \in Thread |-> "idle"]
    /\ unit_actor = [t \in Thread |-> NoUser]
    /\ ops = 0
    /\ inst = [t \in Thread |-> NoInst]
    /\ db = EmptyDb
    /\ clock = 0
    /\ log = <<>>
    /\ log_ctx = <<>>
    /\ \E args \in [log_file : BOOLEAN, json_only : BOOLEAN,
                     user : {<<>>, <<"B", "O", "B">>, <<"a", "l", "i", "c", "e">>},
                     action : {<<>>, <<"u", "p", "d", "a", "t", "e">>},
                     model : {<<>>, <<"A", "P", "P">>},
                     since : {<<>>, strftime(2), <<"s", "o", "o", "n">>},
                     tail : 0..MaxTail] :
       \E file \in {[exists |-> TRUE, readable |-> TRUE, text |-> text] : text \in ViewerTexts}
                    \cup {[exists |-> TRUE, readable |-> FALSE, text |-> <<>>],
                          [exists |-> FALSE, readable |-> FALSE, text |-> <<>>]} :
          viewer = [ran |-> FALSE, args |-> args, file |-> file]
    /\ sink = InitSink
    /\ command = NoCommand
    /\ savepoint = [t \in Thread |-> NoSavepoint]

\* the run of the tool
NextViewer ==
    /\ ~viewer.ran
    /\ RunViewer(viewer.args, viewer.file)
    /\ UNCHANGED <<thread_local, pc, unit_actor, ops, inst, db, clock, log, log_ctx, sink, command, savepoint>>

SpecViewer == InitViewer /\ [][NextViewer]_vars

\* ----------------------------------------- concurrent writers of the log
\* whether Handler.acquire returns: the handler's lock is free
acquire_returns_unlocked(holder) == TRUE

acquire_returns(holder) == holder = "free"

\* a FileHandler that opens the file for writing
FileHandler_open_truncating(file) == <<>>

\* logging.FileHandler(log_file): the file is opened in mode 'a'; what it
\* holds stays
FileHandler_open(file) == file

\* log_change up to logger.info: the entry is built and its record is on the
\* way to the handler the logger holds
logger_info(t, now) ==
    /\ sink.emit[t].pc = "idle"
    /\ Len(log) < MaxEvents
    /\ clock' = now
    /\ log' = Append(log, log_change(<<"TEST">>, <<"System">>, <<"test">>, PlainText,
                                     <<>>, NoUser, <<>>, t, now))
    /\ log_ctx' = Append(log_ctx, [thread |-> t, actor |-> unit_actor[t], passed |-> NoUser,
                                   context |-> thread_local[t], tick |-> now])
    /\ sink' = [sink EXCEPT !.emit[t] = [pc |-> "handle", h |-> sink.handler,
                                         rec |-> Len(log) + 1]]
    /\ UNCHANGED <<thread_local, pc, unit_actor, ops, inst, db, viewer, command, savepoint>>

\* Handler.handle: the thread takes the handler's lock
acquire(t) ==
    /\ sink.emit[t].pc = "handle"
    /\ acquire_returns(sink.lock[sink.emit[t].h])
    /\ sink' = [sink EXCEPT !.lock[sink.emit[t].h] = t, !.emit[t].pc = "emit"]
    /\ UNCHANGED <<thread_local, pc, unit_actor, ops, inst, db, clock, log, log_ctx, viewer, command, savepoint>>

\* StreamHandler.emit: stream.write(msg + terminator); the stream takes the
\* text into the handler's buffer piece by piece
stream_write(t) ==
    /\ sink.emit[t].pc \in {"emit", "msg"}
    /\ sink' = [sink EXCEPT
                  !.buffer[sink.emit[t].h] =
                      Append(@, Chunk(sink.emit[t].rec,
                                      IF sink.emit[t].pc = "emit" THEN "msg" ELSE "terminator",
                                      sink.emit[t].h)),
                  !.emit[t].pc = IF sink.emit[t].pc = "emit" THEN "msg" ELSE "written"]
    /\ UNCHANGED <<thread_local, pc, unit_actor, ops, inst, db, clock, log, log_ctx, viewer, command, savepoint>>

\* StreamHandler.flush and the end of Handler.handle: the buffer is appended
\* to the file, the lock is released
flush(t) ==
    /\ sink.emit[t].pc = "written"
    /\ sink' = [sink EXCEPT
                  !.file = @ \o sink.buffer[sink.emit[t].h],
                  !.buffer[sink.emit[t].h] = <<>>,
                  !.lock[sink.emit[t].h] = "free",
                  !.emit[t] = NotEmitting]
    /\ UNCHANGED <<thread_local, pc, unit_actor, ops, inst, db, clock, log, log_ctx, viewer, command, savepoint>>

\* AuditLogger(): setup_logger removes the logger's handler and gives it a
\* new FileHandler on the same file
setup_logger ==
    /\ sink.handler < MaxHandlers
    /\ sink' = [sink EXCEPT !.handler = @ + 1, !.file = FileHandler_open(@)]
    /\ UNCHANGED <<thread_local, pc, unit_actor, ops, inst, db, clock, log, log_ctx, viewer, command, savepoint>>

\* two threads, each in a request of its own user, and an empty audit.log
InitWriters ==
    /\ thread_local = [t \in Thread |-> IF t = "t1" THEN "alice" ELSE "bob"]
    /\ pc = [t \in Thread |-> "request"]
    /\ unit_actor = [t \in Thread |-> IF t = "t1" THEN "alice" ELSE "bob"]
    /\ ops = 0
    /\ inst = [t \in Thread |-> NoInst]
    /\ db = EmptyDb
    /\ clock = 0
    /\ log = <<>>
    /\ log_ctx = <<>>
    /\ viewer = NoRun
    /\ sink = InitSink
    /\ command = NoCommand
    /\ savepoint = [t \in Thread |-> NoSavepoint]

NextWriters ==
    \/ \E t \in Thread :
          \/ logger_info(t, Now)
          \/ acquire(t)
          \/ stream_write(t)
          \/ flush(t)
    \/ setup_logger

SpecWriters == InitWriters /\ [][NextWriters]_vars

\* ------------------------------------------------------------ properties
Entries == 1..Len(log)

\* the user and user_id an entry carries for the user u (None: nobody)
NameOf(u) == IF u # NoUser THEN username(u) ELSE <<"SYSTEM">>
IdOf(u) == IF u # NoUser THEN user_id(u) ELSE PyNone

\* C1: whatever the interleaving of the units of work running on different
\* threads, a running unit reads back the actor it set itself, and every
\* entry logged without an explicit user carries the actor set by the unit
\* of work that emitted it, never the actor of a unit on another thread.
C1_ActorOfOwnUnit ==
    /\ \A t \in Thread :
            pc[t] # "idle" => get_current_user(thread_local, t) = unit_actor[t]
    /\ \A n \in Entries :
            log_ctx[n].passed = NoUser =>
                /\ log[n].user = NameOf(log_ctx[n].actor)
                /\ log[n].user_id = IdOf(log_ctx[n].actor)

\* two units with distinct actors run at once and both have emitted an
\* entry without an explicit user
C1_Witness ==
    /\ pc["t1"] # "idle" /\ pc["t2"] # "idle"
    /\ unit_actor["t1"] \in Actor /\ unit_actor["t2"] \in Actor
    /\ unit_actor["t1"] # unit_actor["t2"]
    /\ \E m, n \in Entries :
            /\ log_ctx[m].thread = "t1" /\ log_ctx[m].passed = NoUser
            /\ log_ctx[n].thread = "t2" /\ log_ctx[n].passed = NoUser
            /\ log[m].user # log[n].user

\* C2: a thread on which no unit of work runs has no actor in its slot:
\* every unit of work that set the actor (a request through the middleware,
\* the test_audit_logging task) cleared it when it ended, on every exit
\* path.
C2_SlotClearedAtEnd ==
    \A t \in Thread : pc[t] = "idle" => get_current_user(thread_local, t) = NoUser

\* C3: every entry carries the user passed to log_change when one was
\* passed (whatever the context holds), otherwise the user of the thread's
\* context, and otherwise user 'SYSTEM' and user_id null.
C3_ActorResolution ==
    \A n \in Entries :
        LET u == IF log_ctx[n].passed # NoUser THEN log_ctx[n].passed
                 ELSE log_ctx[n].context
        IN  /\ log[n].user = NameOf(u)
            /\ log[n].user_id = IdOf(u)

\* an entry whose explicit user differs from the user in the context, and
\* an entry logged with neither
C3_Witness ==
    /\ \E n \in Entries :
            /\ log_ctx[n].passed \in Actor /\ log_ctx[n].context \in Actor
            /\ log_ctx[n].passed # log_ctx[n].context
            /\ log[n].user = username(log_ctx[n].passed)
    /\ \E n \in Entries :
            /\ log_ctx[n].passed = NoUser /\ log_ctx[n].context = NoUser
            /\ log[n].user = <<"SYSTEM">> /\ log[n].user_id = PyNone

\* the last entry of the log after the step
Last == log'[Len(log')]

\* the names of the fields the changes of an entry record
ChangedFields(changes) == {changes[n][1] : n \in 1..Len(changes)}

\* C4: for every kind the denylist does not exclude, a save that inserts
\* the entity appends exactly one CREATE entry and a delete appends exactly
\* one DELETE entry, for that entity, with changes = {} and the actor the
\* unit of work has set (user 'SYSTEM', user_id null when it set none).
C4_CreateDeleteEmitOne ==
    [][\A t \in Thread :
          /\ (Save(t, Now) /\ db[inst[t].kind] = NoRow
                           /\ ~should_skip_audit(inst[t].kind)) =>
                /\ Len(log') = Len(log) + 1
                /\ Last.action = <<"CREATE">>
                /\ Last.model = label(inst[t].kind)
                /\ Last.object_id = Str(db'[inst[t].kind].vals["id"])
                /\ Last.changes = <<>>
                /\ Last.user = NameOf(unit_actor[t])
                /\ Last.user_id = IdOf(unit_actor[t])
          /\ (Delete(t, Now) /\ ~should_skip_audit(inst[t].kind)) =>
                /\ Len(log') = Len(log) + 1
                /\ Last.action = <<"DELETE">>
                /\ Last.model = label(inst[t].kind)
                /\ Last.object_id = Str(db[inst[t].kind].vals["id"])
                /\ Last.changes = <<>>
                /\ Last.user = NameOf(unit_actor[t])
                /\ Last.user_id = IdOf(unit_actor[t])]_vars

\* a unit of work without an actor deleted an entity of a kind that does not
\* track its fields and inserted one: the log holds its DELETE and CREATE
C4_Witness ==
    \E m, n \in Entries :
        /\ m < n
        /\ log[m].action = <<"DELETE">> /\ log[m].model = label("Language")
        /\ log[m].user = <<"SYSTEM">> /\ log[m].user_id = PyNone
        /\ log[n].action = <<"CREATE">> /\ log[n].model = label("Language")
        /\ log_ctx[m].passed = NoUser /\ log_ctx[n].passed = NoUser

\* C5: for every kind the denylist does not exclude, a save of an entity
\* that is already persisted and has a field that differs from the persisted
\* row appends exactly one UPDATE entry whose changes name the differing
\* fields.
C5_UpdateEmitsOne ==
    [][\A t \in Thread :
          LET k == inst[t].kind
              differing == {f \in FieldNames(k) : inst[t].vals[f] # db[k].vals[f]}
          IN  (Save(t, Now) /\ db[k] # NoRow /\ ~should_skip_audit(k)
                           /\ differing # {}) =>
                /\ Len(log') = Len(log) + 1
                /\ Last.action = <<"UPDATE">>
                /\ differing \subseteq ChangedFields(Last.changes)]_vars

\* C6: a save of a persisted entity whose fields the caller has not assigned
\* since it was loaded or last saved appends nothing to the log.
C6_NoOpSaveEmitsNothing ==
    [][\A t \in Thread :
          (Save(t, Now) /\ db[inst[t].kind] # NoRow /\ ~inst[t].dirty) =>
              log' = log]_vars

C9_DisplayedValuesDiffer ==
    \A n \in Entries :
        log[n].action = <<"UPDATE">> =>
            \A c \in 1..Len(log[n].changes) :
                log[n].changes[c][2].old # log[n].changes[c][2].new

\* the keys of an event the round trip is about
RoundTripKeys ==
    {<<"action">>, <<"model">>, <<"object_id">>, <<"user">>, <<"changes">>,
     <<"additional_info">>}

\* C10: for every entry the logger had written when the log viewer read
\* the file, the viewer returned an event whose action, model, object_id,
\* user, changes and additional_info are those of the entry, whatever
\* strings the entry holds.
C10_RoundTrip ==
    viewer.ran =>
        \A n \in 1..viewer.events :
            \E m \in 1..Len(viewer.out.printed) :
                \A key \in RoundTripKeys :
                    /\ HasKey(viewer.out.printed[m], key)
                    /\ GetItem(viewer.out.printed[m], key) = GetItem(audit_entry(log[n]), key)

\* whether the text ends with the given text
EndsWith(text, tail) ==
    Len(tail) <= Len(text) /\ SubSeq(text, Len(text) - Len(tail) + 1, Len(text)) = tail

\* C11: after k calls of log_change the log file has exactly k lines, and
\* line n ends with the marker '| JSON: ' followed by the JSON document of
\* entry n, whatever texts the entries hold.
C11_OneLinePerEvent ==
    LET lines == readlines(audit_file) IN
        /\ Len(lines) = Len(log)
        /\ \A n \in 1..Len(log) :
               EndsWith(lines[n], Marker \o getMessage(log[n]) \o <<"\n">>)

\* the run got as far as reading the file: it found and opened it and its
\* options were valid
ViewerRead ==
    /\ viewer.ran /\ viewer.file.exists /\ viewer.file.readable
    /\ viewer.args.since # <<>> => strptime(viewer.args.since).ok

\* the raw lines of the file the options of the run select: the last
\* --tail lines, or all when --tail is 0
ViewerWindow ==
    LET lines == readlines(viewer.file.text)
        n == viewer.args.tail
        k == IF n > 0 /\ n < Len(lines) THEN n ELSE Len(lines)
    IN  [j \in 1..k |-> lines[Len(lines) - k + j]]

\* the values the JSON segments of the lines decode to, in order
RECURSIVE Decoded(_)
Decoded(lines) ==
    IF lines = <<>> THEN <<>>
    ELSE LET r == parse_log_entry(strip(Head(lines))) IN
         (IF r.ok THEN <<r.val>> ELSE <<>>) \o Decoded(Tail(lines))

\* a decoded value that is an event: an object whose timestamp, action,
\* model and user are texts
IsEvent(entry) ==
    /\ entry.t = "dict"
    /\ \A key \in {<<"timestamp">>, <<"action">>, <<"model">>, <<"user">>} :
           HasKey(entry, key) /\ GetItem(entry, key).t = "str"

SameIgnoringCase(a, b) == lower(a) = lower(b)

\* the event satisfies every filter the options give
Satisfies(entry, args) ==
    /\ args.user # <<>> => SameIgnoringCase(GetItem(entry, <<"user">>).v, args.user)
    /\ args.action # <<>> => SameIgnoringCase(GetItem(entry, <<"action">>).v, args.action)
    /\ args.model # <<>> =>
           \E p \in 1..Len(GetItem(entry, <<"model">>).v) :
           \E q \in p..Len(GetItem(entry, <<"model">>).v) :
               SameIgnoringCase(SubSeq(GetItem(entry, <<"model">>).v, p, q), args.model)
    /\ (args.since # <<>> /\ strptime(GetItem(entry, <<"timestamp">>).v).ok) =>
           ~Before(strptime(GetItem(entry, <<"timestamp">>).v).val, strptime(args.since).val)

EventPasses(entry) == IsEvent(entry) /\ Satisfies(entry, viewer.args)

\* C12: whatever the interleaving of the threads that log and of the
\* re-initialisations of the logger, the file is a sequence of whole lines:
\* every record in it is followed at once by its own terminator, and no
\* entry's record is in the file twice.
C12_WholeLines ==
    /\ Len(sink.file) % 2 = 0
    /\ \A k \in 1..(Len(sink.file) \div 2) :
           /\ sink.file[2 * k - 1].part = "msg"
           /\ sink.file[2 * k].part = "terminator"
           /\ sink.file[2 * k].rec = sink.file[2 * k - 1].rec
    /\ \A j, k \in 1..Len(sink.file) :
           (sink.file[j].rec = sink.file[k].rec /\ sink.file[j].part = sink.file[k].part)
               => j = k

\* a thread is between the two pieces of its record while the other waits
\* for the same handler with a record of its own, and the file holds a line
\* already
C12_Witness ==
    \E t1, t2 \in Thread :
        /\ sink.emit[t1].pc = "msg"
        /\ sink.emit[t2].pc = "handle"
        /\ sink.emit[t2].h = sink.emit[t1].h
        /\ Len(sink.file) >= 2

\* C13: no save() or delete() ends with an exception of the audit code:
\* whatever fails while the receiver builds or writes the entry, the
\* operation on the instance a thread holds returns normally.
C13_AuditFailureContained ==
    \A t \in Thread : inst[t] # NoInst => ~inst[t].raised

\* C14: no step of the writers, the re-initialisation of the logger
\* included, removes or changes what the file holds: after the step the file
\* starts with everything it held before.
C14_AppendOnly ==
    [][/\ Len(sink.file) <= Len(sink.file')
       /\ SubSeq(sink.file', 1, Len(sink.file)) = sink.file]_vars

\* the file holds a line written through the first handler followed by a
\* line written through the handler of a re-initialisation
C14_Witness ==
    /\ sink.handler > 1
    /\ \E j, k \in 1..Len(sink.file) :
           j < k /\ sink.file[j].h = 1 /\ sink.file[k].h = sink.handler

\* C15: a run that reads the file ends with exit status 0 and returns
\* exactly the events of the lines it considered that satisfy the filters,
\* whatever the other lines hold: a line without the marker, with invalid
\* JSON, with JSON that is no object or with fields of the wrong type is
\* skipped.
C15_BadLinesSkipped ==
    ViewerRead =>
        /\ viewer.out.exit = 0
        /\ viewer.out.printed = SelectSeq(Decoded(ViewerWindow), EventPasses)

\* C16: when every line the run considers is blank, cannot be decoded or
\* holds an event, the run returns exactly the events that satisfy every
\* filter given: user and action equal ignoring case, the model filter a
\* substring of the model ignoring case, the timestamp not before --since
\* or not a date.
C16_FiltersSelect ==
    (ViewerRead /\ \A j \in 1..Len(Decoded(ViewerWindow)) : IsEvent(Decoded(ViewerWindow)[j])) =>
        /\ viewer.out.exit = 0
        /\ viewer.out.printed = SelectSeq(Decoded(ViewerWindow), EventPasses)

\* --user BOB --action update on the log of a CREATE by alice, an UPDATE by
\* bob and a DELETE by alice returned exactly the UPDATE
C16_Witness ==
    /\ viewer.ran
    /\ viewer.file.text = FileText(<<"create", "update", "delete">>)
    /\ viewer.args.user = <<"B", "O", "B">>
    /\ viewer.args.action = <<"u", "p", "d", "a", "t", "e">>
    /\ viewer.args.model = <<>> /\ viewer.args.since = <<>> /\ viewer.args.tail = 0
    /\ Len(viewer.out.printed) = 1
    /\ GetItem(viewer.out.printed[1], <<"action">>) = PyStr(<<"U", "P", "D", "A", "T", "E">>)
    /\ GetItem(viewer.out.printed[1], <<"user">>) = PyStr(<<"b", "o", "b">>)

C18_ExitBehaviour ==
    viewer.ran =>
        /\ (~viewer.file.exists \/ ~viewer.file.readable) =>
               viewer.out.exit # 0 /\ viewer.out.stderr # <<>>
        /\ (/\ ViewerRead
            /\ readlines(viewer.file.text) # <<>>
            /\ \A j \in 1..Len(Decoded(ViewerWindow)) :
                   IsEvent(Decoded(ViewerWindow)[j]) /\ ~EventPasses(Decoded(ViewerWindow)[j])) =>
               /\ viewer.out.exit = 0
               /\ viewer.out.stdout = <<"No matching audit log entries found">>

\* C19: a save of a persisted Application on which the unit of work
\* assigned only lifecycle_stage, from 'development' to 'testing', appends
\* exactly one UPDATE entry, attributed to the unit's actor, whose changes
\* hold lifecycle_stage with old 'development (Development)' and new
\* 'testing (Testing)' and no other field.
C19_ChoiceUpdateOnlyThatField ==
    [][\A t \in Thread :
          LET k == inst[t].kind
              differing == {f \in FieldNames(k) : inst[t].vals[f] # db[k].vals[f]}
          IN  (Save(t, Now) /\ k = "Application" /\ db[k] # NoRow
                 /\ differing = {"lifecycle_stage"}
                 /\ db[k].vals["lifecycle_stage"] = PyStr(<<"development">>)
                 /\ inst[t].vals["lifecycle_stage"] = PyStr(<<"testing">>)) =>
                /\ Len(log') = Len(log) + 1
                /\ Last.action = <<"UPDATE">>
                /\ Last.user = NameOf(unit_actor[t])
                /\ Last.changes =
                      << <<"lifecycle_stage",
                           [old |-> <<"development", " ", "(", "Development", ")">>,
                            new |-> <<"testing", " ", "(", "Testing", ")">>]>> >>]_vars

\* the profiles that exist: the persisted row and the instances held
Profiles ==
    {p \in {db[k] : k \in DOMAIN db} \cup {inst[t] : t \in Thread} : p.kind = "UserProfile"}

\* C20: a save of a profile whose role is application_admin stores
\* has_documentation_access = True, on the row and on the instance, whatever
\* the caller had assigned; and in every state can_access_documentation() is
\* true for every profile, persisted or held, whose role is application_admin.
C20_AdminAlwaysHasDocAccess ==
    /\ [](\A p \in Profiles :
            p.vals["role"] = PyStr(<<"application_admin">>) => can_access_documentation(p))
    /\ [][\A t \in Thread :
            (Save(t, Now) /\ inst[t].kind = "UserProfile"
               /\ inst[t].vals["role"] = PyStr(<<"application_admin">>)) =>
              /\ db'["UserProfile"].vals["has_documentation_access"] = PyBool(TRUE)
              /\ db'["UserProfile"].vals["role"] = PyStr(<<"application_admin">>)
              /\ inst'[t].vals["has_documentation_access"] = PyBool(TRUE)]_vars

\* a persisted technician without documentation access was loaded, the
\* request assigned only its role, and the save stored the access flag too
C20_Witness ==
    /\ ops = 3
    /\ Len(log) = 1
    /\ log[1].action = <<"UPDATE">>
    /\ log[1].model = <<"inventory.UserProfile">>
    /\ {"role", "has_documentation_access"} \subseteq ChangedFields(log[1].changes)
    /\ db["UserProfile"].vals["role"] = PyStr(<<"application_admin">>)
    /\ db["UserProfile"].vals["has_documentation_access"] = PyBool(TRUE)

\* C8: in every entry of the log, whether the change interceptor or a
\* direct call of log_change emitted it, changes is non-empty only if the
\* action is UPDATE.
C8_ChangesOnlyOnUpdate ==
    \A n \in Entries : log[n].changes # <<>> => log[n].action = <<"UPDATE">>

CommandLine(u) ==
    {n \in 1..Len(command.stdout) :
        /\ Len(command.stdout[n]) > 3
        /\ command.stdout[n][1] \in {"Would update", "Would create"}
        /\ u \in {command.stdout[n][3], command.stdout[n][5]}}

\* C22: a run of update_documentation_access with --dry-run leaves every
\* row as it was (the same profiles, each with the same role and the same
\* has_documentation_access) and logs nothing, whatever users and profiles
\* exist; its output starts by stating dry-run mode, has a 'Would update'
\* line for every profile whose access the rules would change and a
\* 'Would create' line for every user without a profile, and ends with the
\* two counts and the hint to run without --dry-run.
C22_DryRunChangesNothing ==
    [][\A t \in Thread :
          update_documentation_access(t, TRUE, Now) =>
              LET out == command'.stdout
                  existing == {u \in Actor : db[<<"User", u>>] # NoRow}
                  missing == {u \in existing : db[<<"UserProfile", u>>] = NoRow}
                  granted == {u \in existing \ missing :
                                /\ db[<<"UserProfile", u>>].vals["role"]
                                      \in {PyStr(<<"application_admin">>),
                                           PyStr(<<"systems_manager">>)}
                                /\ db[<<"UserProfile", u>>].vals["has_documentation_access"]
                                      = PyBool(FALSE)}
              IN  /\ db' = db
                  /\ log' = log
                  /\ out[1] = <<"DRY RUN MODE - No changes will be made">>
                  /\ out[Len(out)] = <<"\n", "Run without --dry-run to apply these changes">>
                  /\ out[Len(out) - 2] = <<"\n", "Would update", " ",
                                           Digit(Cardinality(granted)), " ", "existing profiles">>
                  /\ out[Len(out) - 1] = <<"Would create", " ",
                                           Digit(Cardinality(missing)), " ", "new profiles">>
                  /\ \A u \in Actor :
                        \E n \in 1..Len(out) :
                            /\ u \in granted =>
                                  out[n] = <<"Would update", " ", u, " ", "(",
                                            ChoiceLabel(USER_ROLES,
                                                db[<<"UserProfile", u>>].vals["role"], 1),
                                            ")", ":", " ", "False", " ", "->", " ", "True">>
                            /\ u \in missing =>
                                  /\ out[n][1] = "Would create"
                                  /\ out[n][5] = u]_vars

\* a dry run found a systems manager without access and a user without a
\* profile, reported both and changed neither
C22_Witness ==
    /\ command.ran /\ command.dry_run
    /\ db = command.before
    /\ db[<<"UserProfile", "alice">>] # NoRow
    /\ db[<<"UserProfile", "alice">>].vals["role"] = PyStr(<<"systems_manager">>)
    /\ db[<<"UserProfile", "alice">>].vals["has_documentation_access"] = PyBool(FALSE)
    /\ db[<<"User", "bob">>] # NoRow /\ db[<<"UserProfile", "bob">>] = NoRow
    /\ CommandLine("alice") # {} /\ CommandLine("bob") # {}
    /\ log = <<>>

C24_DenylistBypassesHooks ==
    [][\A t \in Thread :
          ((Save(t, Now) \/ Delete(t, Now)) /\ should_skip_audit(inst[t].kind)) =>
              /\ log' = log
              /\ inst'[t].has_orig = inst[t].has_orig
              /\ inst'[t].orig = inst[t].orig]_vars

\* C25: the record of every entry is '[timestamp] ACTION model#object_id by
\* user: object_str', then ' | Changes: ...' exactly when the entry's
\* changes are non-empty, whatever its action, then ' | Info: ...' exactly
\* when its additional_info is non-empty, then ' | JSON: ' and the compact
\* JSON document of the entry.
C25_HumanRendering ==
    \A n \in Entries :
        LET e == log[n]
            data == audit_entry(e)
        IN  audit_log(n) =
                <<"[">> \o e.timestamp \o <<"]", " ">> \o e.action \o <<" ">> \o e.model
                \o <<"#">> \o e.object_id \o <<" ", "by", " ">> \o e.user
                \o <<":", " ">> \o e.object_str
                \o (IF e.changes # <<>>
                    THEN <<" ", "|", " ", "Changes", ":", " ">>
                         \o JoinChanges(GetItem(data, <<"changes">>).v, 1)
                    ELSE <<>>)
                \o (IF e.additional_info # <<>>
                    THEN <<" ", "|", " ", "Info", ":", " ">>
                         \o JoinInfo(GetItem(data, <<"additional_info">>).v, 1)
                    ELSE <<>>)
                \o <<" ">> \o Marker \o dumps(data)

\* the display rules tried in the order 1 relation, 2 boolean, 3 choice,
\* 4 null, 5 other
PriorityFormat(f, value) ==
    IF f.type = "ForeignKey"
    THEN IF value.t # "None" /\ RelatedExists(value.v)
         THEN Str(value) \o <<" ", "(">> \o RelatedStr(value.v) \o <<")">>
         ELSE Str(value)
    ELSE IF f.type = "BooleanField"
    THEN IF Truthy(value) THEN <<"True">> ELSE <<"False">>
    ELSE IF f.choices # <<>>
    THEN Str(value) \o <<" ", "(">> \o <<ChoiceLabel(f.choices, value, 1)>> \o <<")">>
    ELSE IF value.t = "None" THEN <<"N", "U", "L", "L">>
    ELSE IF Len(Str(value)) > 100
    THEN SubSeq(Str(value), 1, 97) \o <<".", ".", ".">>
    ELSE Str(value)

\* C26: for every instance a unit of work holds and every field it can
\* read, the display of the snapshot's value (None when the snapshot lacks
\* the field) and the display of the current comparable value, as
\* _format_field_value gives them, are those of the rules tried in the order
\* relation, boolean, choice, null, other.
C26_DisplayRulesInOrder ==
    \A t \in Thread :
        (inst[t] # NoInst /\ inst[t].has_orig) =>
            \A n \in 1..Len(Fields(inst[t].kind)) :
                LET f == Fields(inst[t].kind)[n]
                    original_value == DictGet(inst[t].orig, f.name)
                    current_comparable == Comparable(inst[t].vals[f.name])
                IN  HasAttr(inst[t], f) =>
                        /\ format_field_value(f, original_value)
                              = PriorityFormat(f, original_value)
                        /\ format_field_value(f, current_comparable)
                              = PriorityFormat(f, current_comparable)

\* C27: the UPDATE entry of a save that changes the name of an Application
\* (a plain text field) displays a name of more than 100 characters as its
\* first 97 characters followed by '...', 100 characters in all, and a name
\* of 100 characters or fewer unchanged, as the old and as the new value.
C27_TruncationBoundary ==
    [][\A t \in Thread :
          (Save(t, Now) /\ inst[t].kind = "Application" /\ db["Application"] # NoRow
             /\ inst[t].vals["name"] # db["Application"].vals["name"]) =>
              LET display(text) == IF Len(text) > 100
                                   THEN SubSeq(text, 1, 97) \o <<".", ".", ".">>
                                   ELSE text
                  old == display(Str(db["Application"].vals["name"]))
                  new == display(Str(inst[t].vals["name"]))
              IN  /\ Len(log') = Len(log) + 1
                  /\ \E c \in 1..Len(Last.changes) :
                        Last.changes[c] = <<"name", [old |-> old, new |-> new]>>
                  /\ Len(old) <= 100 /\ Len(new) <= 100
                  /\ Len(Str(inst[t].vals["name"])) > 100 => Len(new) = 100]_vars

\* a name of exactly 100 characters was replaced by one of 101: the entry
\* shows the old name whole and the new one cut to 97 characters and '...'
C27_Witness ==
    \E n \in Entries :
        \E c \in 1..Len(log[n].changes) :
            log[n].changes[c] =
                <<"name", [old |-> [j \in 1..100 |-> "x"],
                           new |-> [j \in 1..97 |-> "x"] \o <<".", ".", ".">>]>>

\* C28: the entries a thread's saves and deletes emit are in the log in the
\* order of those saves and deletes, whatever the other thread logs in
\* between: a step never changes or moves the entries already written, a
\* save or delete puts its entry after all of them, and so of two entries of
\* one thread the one written by the earlier mutation comes first; a
\* CREATE of an entity comes before the UPDATE and DELETE entries the same
\* instance causes later.
C28_OrderOfMutations ==
    /\ [][/\ Len(log') >= Len(log)
          /\ SubSeq(log', 1, Len(log)) = log
          /\ SubSeq(log_ctx', 1, Len(log)) = log_ctx
          /\ \A t \in Thread :
                (Save(t, Now) \/ Delete(t, Now)) =>
                    \A n \in (Len(log) + 1)..Len(log') :
                        /\ log_ctx'[n].thread = t
                        /\ log_ctx'[n].tick = Now
                        /\ log'[n].model = label(inst[t].kind)
                        /\ log'[n].action =
                              IF Delete(t, Now) THEN <<"DELETE">>
                              ELSE IF db[inst[t].kind] = NoRow THEN <<"CREATE">>
                              ELSE <<"UPDATE">>]_vars
    /\ [](\A m, n \in Entries :
             (m < n /\ log_ctx[m].thread = log_ctx[n].thread) =>
                 log_ctx[m].tick < log_ctx[n].tick)

\* one unit of work created an Application and saved it again, and the other
\* thread logged between the two: CREATE, the other entry, UPDATE
C28_Witness ==
    /\ Len(log) = 3
    /\ log[1].action = <<"CREATE">> /\ log[3].action = <<"UPDATE">>
    /\ log[1].model = label("Application") /\ log[3].model = label("Application")
    /\ log[1].object_id = log[3].object_id
    /\ log_ctx[1].thread = log_ctx[3].thread
    /\ log_ctx[2].thread # log_ctx[1].thread

\* C29: when two units of work have loaded the same entity and save it, the
\* UPDATE entry of every save describes the difference between the row
\* before that save and the row after it, for the fields the application
\* sets (the automatic timestamp apart): each old value is the display of
\* the value the row held just before the save, and every field whose
\* stored value the save changed is in the changes.
C29_UpdateDescribesTheWrite ==
    [][\A t \in Thread :
          (Save(t, Now) /\ HasAuditMixin(inst[t].kind) /\ db[inst[t].kind] # NoRow) =>
              LET k == inst[t].kind
                  changes == IF Len(log') > Len(log) THEN Last.changes ELSE <<>>
              IN  /\ \A c \in 1..Len(changes) :
                        \E n \in 1..Len(Fields(k)) :
                           /\ Fields(k)[n].name = changes[c][1]
                           /\ ~Fields(k)[n].auto_now =>
                                  changes[c][2].old =
                                      format_field_value(Fields(k)[n],
                                          Comparable(db[k].vals[changes[c][1]]))
                  /\ \A n \in 1..Len(Fields(k)) :
                        (/\ ~Fields(k)[n].auto_now
                         /\ db'[k].vals[Fields(k)[n].name] # db[k].vals[Fields(k)[n].name]) =>
                            Fields(k)[n].name \in ChangedFields(changes)]_vars

\* C30: every entry of the log stands for a write that succeeded and is
\* committed: a save that fails appends no entry and leaves the snapshot of
\* the instance as it was, and when a transaction is rolled back the log
\* holds no entry of a write made inside it.
C30_EventsOnlyForCommittedWrites ==
    [][\A t \in Thread :
          /\ Save_receiver_raises(t, Now) =>
                /\ log' = log
                /\ inst'[t].orig = inst[t].orig
          /\ atomic_exit(t, TRUE) =>
                log' = SubSeq(log, 1, savepoint[t].events)]_vars

====
